---- MODULE Spec2Model ----
(***************************************************************************)
(* Attendance aggregation engine of rekapabsensi: the DaySchedule, Holiday *)
(* and DailyAttendance tables, the services that write them                *)
(* (AttendanceService, ScheduleService, HolidayService) and the reports    *)
(* that read them (ReportService).                                         *)
(*                                                                         *)
(* Dates are day numbers; day 1 is Friday 2026-01-16, so the window        *)
(* 1..MaxDate is Fri, Sat, Sun, Mon, ...  A period mapping (jp_statuses) is *)
(* a function from string keys to status strings, as the JSON column holds *)
(* it.  Percentages are integers in hundredths (91.67 is 9167).            *)
(***************************************************************************)
EXTENDS Integers, Sequences, FiniteSets, TLC

\* ---------------------------------------------------------------- bounds
MaxDate == 2
MaxBatch == 3
MaxHolidays == 2

\* ------------------------------------------------------- fixed test data
None == "None"

Classrooms == {"cA", "cB"}
Students == {"s1", "s2", "s3"}
\* Student.objects ... order_by('name')
StudentsByName == <<"s1", "s2", "s3">>
student_classroom == [s \in Students |-> IF s = "s3" THEN "cB" ELSE "cA"]
student_is_active == [s \in Students |-> s # "s3"]

Dates == 1..MaxDate
Weekdays == 0..6

\* date.weekday(): 0 = Monday .. 6 = Sunday; day 1 is a Friday
weekday(d) == (d + 3) % 7

\* str(jp_num) for the period numbers the schedule can hold (0..11)
DigitStr == <<"1", "2", "3", "4", "5", "6", "7", "8", "9", "10", "11">>
str(n) == IF n = 0 THEN "0" ELSE DigitStr[n]

\* dict.get(key, None)
dict_get(m, k) == IF k \in DOMAIN m THEN m[k] ELSE None

\* the dict {"1": seq[1], "2": seq[2], ...}
JP(seq) ==
    [k \in {str(i) : i \in 1..Len(seq)} |->
        seq[CHOOSE i \in 1..Len(seq) : str(i) = k]]

EmptyDict == JP(<< >>)

\* ------------------------------------------------------------------ state
VARIABLES
    attendance,   \* DailyAttendance table: (student, date) -> rows (jp_statuses)
    schedule,     \* DaySchedule table: weekday -> [jp, school]
    holidays,     \* Holiday table: slot -> row (NoHoliday when free)
    result,       \* outcome of the last service call
    pc,           \* position of each concurrent save_attendance request
    req           \* per request: its inputs and what it has fetched

vars == <<attendance, schedule, holidays, result, pc, req>>

Procs == {"p1", "p2"}

\* the operation called last and the exception it raised ("none": it returned)
\* and, for the save operations, the numbers of rows created and updated
NoResult == [op |-> "none", error |-> "none", created |-> 0, updated |-> 0]
Ok(op) == [op |-> op, error |-> "none", created |-> 0, updated |-> 0]
Err(op, e) == [op |-> op, error |-> e, created |-> 0, updated |-> 0]

\* the seeded DaySchedule rows: Mon-Thu 6, Fri 4, Sat 6, Sun 0 / non-school
SeededSchedule ==
    [w \in Weekdays |->
        [jp |-> IF w = 4 THEN 4 ELSE IF w = 6 THEN 0 ELSE 6,
         school |-> (w # 6),
         updated_by |-> None]]

IdleReq == [student |-> None, date |-> 0, jp |-> EmptyDict,
            created |-> FALSE, error |-> "none"]

\* a free slot of the Holiday table
NoHoliday == [date |-> 0, apply_to_all |-> FALSE, classrooms |-> {}]

Init ==
    /\ attendance = [k \in Students \X Dates |-> << >>]
    /\ schedule = SeededSchedule
    /\ holidays = [i \in 1..MaxHolidays |-> NoHoliday]
    /\ result = NoResult
    /\ pc = [p \in Procs |-> "idle"]
    /\ req = [p \in Procs |-> IdleReq]

\* ------------------------------------------------------- ScheduleService
\* get_jp_count_for_date without the default of 6 for a missing row
get_jp_count_for_date_no_default(target_date) ==
    LET day_of_week == weekday(target_date) IN
    IF day_of_week \in DOMAIN schedule
        THEN schedule[day_of_week].jp
        ELSE 0

get_jp_count_for_date(target_date) ==
    LET day_of_week == weekday(target_date) IN
    IF day_of_week \in DOMAIN schedule
        THEN schedule[day_of_week].jp
        ELSE 6

is_school_day(target_date) ==
    LET day_of_week == weekday(target_date) IN
    IF day_of_week \in DOMAIN schedule
        THEN schedule[day_of_week].school
        ELSE day_of_week # 6

\* DaySchedule.clean (and the field validators) run by DaySchedule.save
DaySchedule_full_clean(jp_count) ==
    IF jp_count < 1 \/ jp_count > 10 THEN "ValidationError" ELSE "none"

\* update_schedule that brings a count outside 1..10 back into the range
update_schedule_clamps_count(day_of_week, jp_count, user, is_school_day_arg) ==
    LET n == IF jp_count < 1 THEN 1 ELSE IF jp_count > 10 THEN 10 ELSE jp_count
    IN IF day_of_week \notin DOMAIN schedule
         THEN [schedule |-> schedule, error |-> "DoesNotExist"]
       ELSE [schedule |->
               [schedule EXCEPT ![day_of_week] =
                   [jp |-> n,
                    school |-> IF is_school_day_arg = None
                                 THEN schedule[day_of_week].school
                                 ELSE (is_school_day_arg = "True"),
                    updated_by |-> IF user = None
                                     THEN schedule[day_of_week].updated_by
                                     ELSE user]],
             error |-> "none"]

\* is_school_day_arg is "None", "True" or "False"; None leaves the flag
\* alone, as user None leaves updated_by alone.
\* The outcome: the table afterwards and the exception raised.
update_schedule(day_of_week, jp_count, user, is_school_day_arg) ==
    IF jp_count < 1 \/ jp_count > 10
      THEN [schedule |-> schedule, error |-> "ValidationError"]
    ELSE IF day_of_week \notin DOMAIN schedule
      THEN [schedule |-> schedule, error |-> "DoesNotExist"]
    ELSE IF DaySchedule_full_clean(jp_count) # "none"
      THEN [schedule |-> schedule, error |-> "ValidationError"]
    ELSE [schedule |->
            [schedule EXCEPT ![day_of_week] =
                [jp |-> jp_count,
                 school |-> IF is_school_day_arg = None
                              THEN schedule[day_of_week].school
                              ELSE (is_school_day_arg = "True"),
                 updated_by |-> IF user = None
                                  THEN schedule[day_of_week].updated_by
                                  ELSE user]],
          error |-> "none"]

\* a call of update_schedule by the user "admin"
DoUpdateSchedule(day_of_week, jp_count, is_school_day_arg) ==
    LET r == update_schedule(day_of_week, jp_count, "admin",
                             is_school_day_arg) IN
    /\ schedule' = r.schedule
    /\ result' = Err("update_schedule", r.error)
    /\ UNCHANGED <<attendance, holidays, pc, req>>

\* int(s) of a POST value: the number a decimal string of 0..11 spells, or
\* ValueError
int(s) ==
    IF \E n \in 0..11 : str(n) = s
        THEN [error |-> "none", value |-> CHOOSE n \in 0..11 : str(n) = s]
        ELSE [error |-> "ValueError", value |-> 0]

\* request.POST.get(key): the submitted value, None for a key not submitted
POST_get(POST, key) == IF key \in DOMAIN POST THEN POST[key] ELSE None

\* the row manage_day_schedule leaves for one weekday: the submitted count
\* and checkbox when the count is a number in 1..10, else the row as it was
manage_day_schedule_row(POST, user, day_of_week) ==
    LET jp_count == POST_get(POST, <<"jp_count", day_of_week>>)
        checkbox == POST_get(POST, <<"is_school_day", day_of_week>>)
        n == int(jp_count)
    IN  IF jp_count = None \/ jp_count = "" THEN schedule[day_of_week]
        ELSE IF n.error # "none" THEN schedule[day_of_week]
        ELSE IF 1 <= n.value /\ n.value <= 10
          THEN [jp |-> n.value,
                school |-> (checkbox = "on"),
                updated_by |-> user]
        ELSE schedule[day_of_week]

\* manage_day_schedule that stores the checkbox of every row, whatever the
\* submitted count is
manage_day_schedule_flag_always(POST, user) ==
    [schedule |->
        [w \in DOMAIN schedule |->
            [manage_day_schedule_row(POST, user, w) EXCEPT
                !.school = (POST_get(POST, <<"is_school_day", w>>) = "on")]],
     error |-> "none"]

\* the POST branch of the view, inside transaction.atomic: a row whose save
\* raised would undo the rows saved before it.
\* The outcome: the table afterwards and the exception the view caught.
manage_day_schedule(POST, user) ==
    LET rows == [w \in DOMAIN schedule |->
                    manage_day_schedule_row(POST, user, w)]
    IN  IF \E w \in DOMAIN schedule :
              /\ rows[w] # schedule[w]
              /\ DaySchedule_full_clean(rows[w].jp) # "none"
          THEN [schedule |-> schedule, error |-> "ValidationError"]
          ELSE [schedule |-> rows, error |-> "none"]

\* a submission of the day-schedule settings page by the user "admin"
DoManageDaySchedule(POST) ==
    LET r == manage_day_schedule(POST, "admin") IN
    /\ schedule' = r.schedule
    /\ result' = Err("manage_day_schedule", r.error)
    /\ UNCHANGED <<attendance, holidays, pc, req>>

\* -------------------------------------------------- DailyAttendance model
\* valid_statuses with a fifth code
valid_statuses_with_fifth_code == {"H", "S", "I", "A", "X"}

valid_statuses == {"H", "S", "I", "A"}

\* DailyAttendance.clean
DailyAttendance_clean(jp_statuses) ==
    IF \E k \in DOMAIN jp_statuses : jp_statuses[k] \notin valid_statuses
        THEN "ValidationError" ELSE "none"

\* Model.validate_unique for unique_together (student, date); an instance
\* being updated is excluded from the lookup
validate_unique(table, student, date, adding) ==
    IF adding /\ Len(table[<<student, date>>]) > 0
        THEN "ValidationError" ELSE "none"

\* Model.full_clean as DailyAttendance.save runs it: clean_fields (the
\* JSONField has blank=False, so an empty dict is refused), clean,
\* validate_unique
full_clean(table, student, date, jp_statuses, adding) ==
    IF jp_statuses = EmptyDict THEN "ValidationError"
    ELSE IF DailyAttendance_clean(jp_statuses) # "none" THEN "ValidationError"
    ELSE validate_unique(table, student, date, adding)

\* db_insert on a table that lacks the unique index
db_insert_no_unique_index(table, student, date, jp_statuses) ==
    [table |-> [table EXCEPT ![<<student, date>>] = Append(@, jp_statuses)],
     error |-> "none"]

\* the INSERT, under the unique index on (student, date)
db_insert(table, student, date, jp_statuses) ==
    IF Len(table[<<student, date>>]) > 0
        THEN [table |-> table, error |-> "IntegrityError"]
        ELSE [table |-> [table EXCEPT ![<<student, date>>] =
                            Append(@, jp_statuses)],
              error |-> "none"]

\* db_update that leaves jp_statuses out of the written fields
db_update_keeps_statuses(table, student, date, jp_statuses) == table

\* the UPDATE of the fetched row
db_update(table, student, date, jp_statuses) ==
    [table EXCEPT ![<<student, date>>] =
        IF Len(@) = 0 THEN @ ELSE [@ EXCEPT ![1] = jp_statuses]]

\* DailyAttendance.save of a new instance: full_clean, then INSERT
Model_create(table, student, date, jp_statuses) ==
    LET e == full_clean(table, student, date, jp_statuses, TRUE) IN
    IF e # "none" THEN [table |-> table, error |-> e]
    ELSE db_insert(table, student, date, jp_statuses)

\* QuerySet.update_or_create run without interference: get, else create;
\* when the row exists set the defaults and save (full_clean, UPDATE)
update_or_create(table, student, date, jp_statuses) ==
    LET rows == table[<<student, date>>] IN
    IF Len(rows) > 1
        THEN [table |-> table, created |-> FALSE,
              error |-> "MultipleObjectsReturned"]
    ELSE IF Len(rows) = 0
        THEN LET c == Model_create(table, student, date, jp_statuses) IN
             [table |-> c.table, created |-> (c.error = "none"),
              error |-> c.error]
    ELSE LET e == full_clean(table, student, date, jp_statuses, FALSE) IN
         IF e # "none"
            THEN [table |-> table, created |-> FALSE, error |-> e]
            ELSE [table |-> db_update(table, student, date, jp_statuses),
                  created |-> FALSE, error |-> "none"]

\* ----------------------------------------------------- AttendanceService
\* the row of (student, date) as a sequence: empty for None
get_attendance(student, target_date) ==
    LET rows == attendance[<<student, target_date>>] IN
    IF Len(rows) = 0 THEN << >> ELSE <<rows[1]>>

\* the message of an exception: its text and the two counts it names
NoMessage == [text |-> "", expected |-> 0 - 1, actual |-> 0 - 1]
InvalidStatusMessage ==
    [text |-> "Invalid status", expected |-> 0 - 1, actual |-> 0 - 1]
ExpectedGotMessage(expected, actual) ==
    [text |-> "Expected JP entries", expected |-> expected, actual |-> actual]

\* save_attendance without the check of the number of entries
save_attendance_no_count_check(table, student, target_date, jp_statuses) ==
    IF \E k \in DOMAIN jp_statuses : jp_statuses[k] \notin valid_statuses
      THEN [table |-> table, error |-> "ValidationError", created |-> FALSE,
            message |-> InvalidStatusMessage]
    ELSE
      LET r == update_or_create(table, student, target_date, jp_statuses) IN
      IF r.error # "none"
        THEN [table |-> table, error |-> r.error, created |-> FALSE,
              message |-> NoMessage]
        ELSE [table |-> r.table, error |-> "none", created |-> r.created,
              message |-> NoMessage]

\* save_attendance that stores a status it does not know as an Alpa
save_attendance_invalid_as_alpa(table, student, target_date, jp_statuses) ==
    LET cleaned == [k \in DOMAIN jp_statuses |->
                      IF jp_statuses[k] \in valid_statuses
                        THEN jp_statuses[k] ELSE "A"]
        r == update_or_create(table, student, target_date, cleaned)
    IN
    IF Cardinality(DOMAIN jp_statuses) # get_jp_count_for_date(target_date)
      THEN [table |-> table, error |-> "ValidationError", created |-> FALSE,
            message |-> ExpectedGotMessage(
                            get_jp_count_for_date(target_date),
                            Cardinality(DOMAIN jp_statuses))]
    ELSE [table |-> r.table, error |-> r.error, created |-> r.created,
          message |-> NoMessage]

\* save_attendance called on table: the table afterwards, the exception
\* raised and whether the row was created
save_attendance(table, student, target_date, jp_statuses) ==
    LET expected_jp_count == get_jp_count_for_date(target_date)
        raise(e, m) == [table |-> table, error |-> e, created |-> FALSE,
                        message |-> m]
    IN
    IF \E k \in DOMAIN jp_statuses : jp_statuses[k] \notin valid_statuses
      THEN raise("ValidationError", InvalidStatusMessage)
    ELSE IF Cardinality(DOMAIN jp_statuses) # expected_jp_count
      THEN raise("ValidationError",
                 ExpectedGotMessage(expected_jp_count,
                                    Cardinality(DOMAIN jp_statuses)))
    ELSE
      LET r == update_or_create(table, student, target_date, jp_statuses) IN
      IF r.error # "none" THEN raise(r.error, NoMessage)
      ELSE \* if created: attendance.created_by = user; attendance.save()
           [table |-> IF r.created
                        THEN db_update(r.table, student, target_date,
                                       jp_statuses)
                        ELSE r.table,
            error |-> "none", created |-> r.created, message |-> NoMessage]

DoSaveAttendance(student, target_date, jp_statuses) ==
    LET r == save_attendance(attendance, student, target_date, jp_statuses)
    IN
    /\ attendance' = r.table
    /\ result' = [op |-> "save_attendance", error |-> r.error,
                  created |-> IF r.error = "none" /\ r.created THEN 1 ELSE 0,
                  updated |-> IF r.error = "none" /\ ~r.created THEN 1 ELSE 0]
    /\ UNCHANGED <<schedule, holidays, pc, req>>

\* the loop of save_bulk_attendance counting every entry as created
RECURSIVE bulk_loop_counts_created_only(_, _, _, _, _, _, _)
bulk_loop_counts_created_only(table, classroom, target_date, attendance_data, i, created_count, updated_count) ==
    IF i > Len(attendance_data)
      THEN [table |-> table, error |-> "none",
            created |-> created_count, updated |-> updated_count]
    ELSE
      LET data == attendance_data[i]
          raise(e) == [table |-> table, error |-> e,
                       created |-> created_count, updated |-> updated_count]
      IN
      IF data.student_id \notin Students
        THEN raise("AttendanceServiceError")
      ELSE IF student_classroom[data.student_id] # classroom
        THEN raise("AttendanceServiceError")
      ELSE IF \E k \in DOMAIN data.jp_statuses :
                 data.jp_statuses[k] \notin valid_statuses
        THEN raise("AttendanceServiceError")
      ELSE
        LET r == update_or_create(table, data.student_id, target_date,
                                  data.jp_statuses) IN
        IF r.error # "none" THEN raise(r.error)
        ELSE bulk_loop_counts_created_only(r.table, classroom, target_date,
                       attendance_data, i + 1, created_count + 1,
                       updated_count)

\* the body of save_bulk_attendance from entry i on, writing into table;
\* stops at the first exception
RECURSIVE bulk_loop(_, _, _, _, _, _, _)
bulk_loop(table, classroom, target_date, attendance_data, i, created_count, updated_count) ==
    IF i > Len(attendance_data)
      THEN [table |-> table, error |-> "none",
            created |-> created_count, updated |-> updated_count]
    ELSE
      LET data == attendance_data[i]
          raise(e) == [table |-> table, error |-> e,
                       created |-> created_count, updated |-> updated_count]
      IN
      IF data.student_id \notin Students
        THEN raise("AttendanceServiceError")
      ELSE IF student_classroom[data.student_id] # classroom
        THEN raise("AttendanceServiceError")
      ELSE IF \E k \in DOMAIN data.jp_statuses :
                 data.jp_statuses[k] \notin valid_statuses
        THEN raise("AttendanceServiceError")
      ELSE
        LET r == update_or_create(table, data.student_id, target_date,
                                  data.jp_statuses) IN
        IF r.error # "none" THEN raise(r.error)
        ELSE bulk_loop(r.table, classroom, target_date, attendance_data,
                       i + 1,
                       created_count + (IF r.created THEN 1 ELSE 0),
                       updated_count + (IF r.created THEN 0 ELSE 1))

\* save_bulk_attendance without @transaction.atomic: every write is committed
transaction_autocommit(before, outcome) == outcome.table

\* @transaction.atomic: an exception leaving the block rolls its writes back
transaction_atomic(before, outcome) ==
    IF outcome.error # "none" THEN before ELSE outcome.table

\* save_bulk_attendance called on table: the table afterwards, the exception
\* raised and the counts returned
save_bulk_attendance(table, classroom, target_date, attendance_data) ==
    LET outcome == bulk_loop(table, classroom, target_date, attendance_data,
                             1, 0, 0)
    IN [table |-> transaction_atomic(table, outcome),
        error |-> outcome.error,
        created |-> IF outcome.error = "none" THEN outcome.created ELSE 0,
        updated |-> IF outcome.error = "none" THEN outcome.updated ELSE 0]

DoSaveBulkAttendance(classroom, target_date, attendance_data) ==
    LET r == save_bulk_attendance(attendance, classroom, target_date,
                                  attendance_data)
    IN
    /\ attendance' = r.table
    /\ result' = [op |-> "save_bulk_attendance", error |-> r.error,
                  created |-> r.created, updated |-> r.updated]
    /\ UNCHANGED <<schedule, holidays, pc, req>>

\* -------------------------------------------------------- HolidayService
HolidaySlots == 1..MaxHolidays
HOLIDAY_TYPES == {"UAS", "UN", "PESANTREN", "LAINNYA"}

\* is_holiday for which a holiday of some classrooms is a holiday of all
is_holiday_any_scope(target_date, classroom) ==
    \E i \in 1..MaxHolidays :
        /\ holidays[i] # NoHoliday
        /\ holidays[i].date = target_date
        /\ (classroom = None => holidays[i].apply_to_all)

\* is_holiday that looks only at the holidays of the classroom it is given
is_holiday_classroom_only(target_date, classroom) ==
    IF classroom = None
      THEN \E i \in 1..MaxHolidays :
              /\ holidays[i] # NoHoliday
              /\ holidays[i].date = target_date
              /\ holidays[i].apply_to_all
      ELSE \E i \in 1..MaxHolidays :
              /\ holidays[i] # NoHoliday
              /\ holidays[i].date = target_date
              /\ ~holidays[i].apply_to_all
              /\ classroom \in holidays[i].classrooms

is_holiday(target_date, classroom) ==
    LET global_holiday ==
            \E i \in HolidaySlots :
                /\ holidays[i] # NoHoliday
                /\ holidays[i].date = target_date
                /\ holidays[i].apply_to_all
        classroom_holiday ==
            \E i \in HolidaySlots :
                /\ holidays[i] # NoHoliday
                /\ holidays[i].date = target_date
                /\ ~holidays[i].apply_to_all
                /\ classroom \in holidays[i].classrooms
    IN
    IF global_holiday THEN TRUE
    ELSE IF classroom # None /\ classroom_holiday THEN TRUE
    ELSE FALSE

\* Classroom.objects.filter(id__in=classroom_ids)
Classroom_filter(classroom_ids) == classroom_ids \cap Classrooms

\* Holiday.clean and the choices of holiday_type, run by Holiday.save
Holiday_full_clean(holiday_type) ==
    IF holiday_type \notin HOLIDAY_TYPES THEN "ValidationError" ELSE "none"

\* data: [date, holiday_type, apply_to_all, classroom_ids], date 0 for a
\* missing date.  The outcome: the table afterwards and the exception raised.
\* The new row takes the lowest free slot.
create_holiday(data) ==
    LET slot == CHOOSE i \in HolidaySlots :
                    /\ holidays[i] = NoHoliday
                    /\ \A j \in HolidaySlots : holidays[j] = NoHoliday => i <= j
        raise(e) == [holidays |-> holidays, error |-> e]
    IN
    IF data.date = 0 THEN raise("ValidationError")
    ELSE IF data.holiday_type \notin HOLIDAY_TYPES
      THEN raise("ValidationError")
    ELSE IF ~data.apply_to_all /\ data.classroom_ids = {}
      THEN raise("ValidationError")
    ELSE IF Holiday_full_clean(data.holiday_type) # "none"
      THEN raise("ValidationError")
    ELSE [holidays |->
            [holidays EXCEPT ![slot] =
                [date |-> data.date,
                 apply_to_all |-> data.apply_to_all,
                 classrooms |-> IF ~data.apply_to_all
                                  THEN Classroom_filter(data.classroom_ids)
                                  ELSE {}]],
          error |-> "none"]

DoCreateHoliday(data) ==
    /\ \E i \in HolidaySlots : holidays[i] = NoHoliday
    /\ LET r == create_holiday(data) IN
       /\ holidays' = r.holidays
       /\ result' = Err("create_holiday", r.error)
    /\ UNCHANGED <<attendance, schedule, pc, req>>

\* data: date 0, apply_to_all "None" and has_classroom_ids FALSE stand for a
\* key that is not in the dict
update_holiday(i, data) ==
    LET apply_to_all == IF data.apply_to_all = None
                          THEN holidays[i].apply_to_all
                          ELSE (data.apply_to_all = "True")
        saved == [holidays[i] EXCEPT
                     !.date = IF data.date = 0 THEN @ ELSE data.date,
                     !.apply_to_all = apply_to_all]
    IN [holidays |->
            [holidays EXCEPT ![i] =
                IF data.has_classroom_ids
                  THEN [saved EXCEPT !.classrooms =
                          IF apply_to_all THEN {}
                          ELSE Classroom_filter(data.classroom_ids)]
                  ELSE saved],
        error |-> "none"]

DoUpdateHoliday(i, data) ==
    /\ holidays[i] # NoHoliday
    /\ LET r == update_holiday(i, data) IN
       /\ holidays' = r.holidays
       /\ result' = Err("update_holiday", r.error)
    /\ UNCHANGED <<attendance, schedule, pc, req>>

delete_holiday(i) == [holidays EXCEPT ![i] = NoHoliday]

DoDeleteHoliday(i) ==
    /\ holidays[i] # NoHoliday
    /\ holidays' = delete_holiday(i)
    /\ result' = Ok("delete_holiday")
    /\ UNCHANGED <<attendance, schedule, pc, req>>

\* ------------------------------------------------- HolidayForm and views
\* data: [date, apply_scope, classrooms]; date 0 for a missing date.
\* HolidayForm.is_valid: the fields (date required, apply_scope one of its
\* choices, classrooms among the active classrooms) and HolidayForm.clean
HolidayForm_is_valid(data) ==
    /\ data.date # 0
    /\ data.apply_scope \in {"all", "specific"}
    /\ data.classrooms \subseteq Classrooms
    /\ ~(data.apply_scope = "specific" /\ data.classrooms = {})

\* form.save(commit=False), holiday.save() and form.save_m2m() of the views
HolidayForm_save(data) ==
    [date |-> data.date,
     apply_to_all |-> (data.apply_scope = "all"),
     classrooms |-> data.classrooms]

\* manage_holiday_create: an invalid form is shown again, nothing is saved
manage_holiday_create(data) ==
    LET slot == CHOOSE i \in HolidaySlots :
                    /\ holidays[i] = NoHoliday
                    /\ \A j \in HolidaySlots : holidays[j] = NoHoliday => i <= j
    IN IF HolidayForm_is_valid(data)
         THEN [holidays |-> [holidays EXCEPT ![slot] = HolidayForm_save(data)],
               error |-> "none"]
         ELSE [holidays |-> holidays, error |-> "ValidationError"]

DoManageHolidayCreate(data) ==
    /\ \E i \in HolidaySlots : holidays[i] = NoHoliday
    /\ LET r == manage_holiday_create(data) IN
       /\ holidays' = r.holidays
       /\ result' = Err("manage_holiday_create", r.error)
    /\ UNCHANGED <<attendance, schedule, pc, req>>

\* manage_holiday_edit of the holiday in slot pk
manage_holiday_edit(pk, data) ==
    IF HolidayForm_is_valid(data)
      THEN [holidays |-> [holidays EXCEPT ![pk] = HolidayForm_save(data)],
            error |-> "none"]
      ELSE [holidays |-> holidays, error |-> "ValidationError"]

DoManageHolidayEdit(pk, data) ==
    /\ holidays[pk] # NoHoliday
    /\ LET r == manage_holiday_edit(pk, data) IN
       /\ holidays' = r.holidays
       /\ result' = Err("manage_holiday_edit", r.error)
    /\ UNCHANGED <<attendance, schedule, pc, req>>

\* ---------------------------------------------------------- ReportService
\* the while loop of _get_school_dates from current_date on
RECURSIVE school_dates_loop(_, _, _, _)
school_dates_loop(classroom, current_date, end_date, school_dates) ==
    IF current_date > end_date THEN school_dates
    ELSE school_dates_loop(classroom, current_date + 1, end_date,
            IF is_school_day(current_date)
               /\ ~is_holiday(current_date, classroom)
              THEN Append(school_dates, current_date)
              ELSE school_dates)

\* _get_school_dates that does not ask is_holiday
RECURSIVE school_dates_loop_ignores_holidays(_, _, _, _)
school_dates_loop_ignores_holidays(classroom, current_date, end_date, school_dates) ==
    IF current_date > end_date THEN school_dates
    ELSE school_dates_loop_ignores_holidays(classroom, current_date + 1,
            end_date,
            IF is_school_day(current_date)
              THEN Append(school_dates, current_date)
              ELSE school_dates)

get_school_dates_ignores_holidays(classroom, start_date, end_date) ==
    school_dates_loop_ignores_holidays(classroom, start_date, end_date, << >>)

\* _get_school_dates whose loop stops one day before end_date
get_school_dates_exclusive_end(classroom, start_date, end_date) ==
    school_dates_loop(classroom, start_date, end_date - 1, << >>)

get_school_dates(classroom, start_date, end_date) ==
    school_dates_loop(classroom, start_date, end_date, << >>)

\* percentage that takes an empty denominator for full attendance
percentage_full_when_empty(n, total) ==
    IF total > 0
      THEN LET q == (n * 10000) \div total
               r == (n * 10000) % total
           IN IF 2 * r > total THEN q + 1
              ELSE IF 2 * r = total THEN q + (q % 2)
              ELSE q
      ELSE 10000

\* round(n / total * 100, 2) if total > 0 else 0.0, in hundredths; Python
\* rounds the quotient to the nearest hundredth, a tie to the even one
percentage(n, total) ==
    IF total > 0
      THEN LET q == (n * 10000) \div total
               r == (n * 10000) % total
           IN IF 2 * r > total THEN q + 1
              ELSE IF 2 * r = total THEN q + (q % 2)
              ELSE q
      ELSE 0

\* `if status:`
truthy(status) == status # None /\ status # ""

ZeroCounts == [h |-> 0, s |-> 0, i |-> 0, a |-> 0, jp |-> 0]

\* class_jp_loop that takes a period without a status for an Alpa
RECURSIVE class_jp_loop_missing_is_alpa(_, _, _, _)
class_jp_loop_missing_is_alpa(jp_statuses, jp_num, jp_count, c) ==
    IF jp_num > jp_count THEN c
    ELSE
      LET status == dict_get(jp_statuses, str(jp_num))
          c1 == IF status = "H" THEN [c EXCEPT !.h = @ + 1]
                ELSE IF status = "S" THEN [c EXCEPT !.s = @ + 1]
                ELSE IF status = "I" THEN [c EXCEPT !.i = @ + 1]
                ELSE [c EXCEPT !.a = @ + 1]
      IN class_jp_loop_missing_is_alpa(jp_statuses, jp_num + 1, jp_count,
                                       [c1 EXCEPT !.jp = @ + 1])

\* class_jp_loop that adds every period slot to the total, recorded or not
RECURSIVE class_jp_loop_counts_every_slot(_, _, _, _)
class_jp_loop_counts_every_slot(jp_statuses, jp_num, jp_count, c) ==
    IF jp_num > jp_count THEN c
    ELSE
      LET status == dict_get(jp_statuses, str(jp_num))
          c1 == IF status = "H" THEN [c EXCEPT !.h = @ + 1]
                ELSE IF status = "S" THEN [c EXCEPT !.s = @ + 1]
                ELSE IF status = "I" THEN [c EXCEPT !.i = @ + 1]
                ELSE IF status = "A" THEN [c EXCEPT !.a = @ + 1]
                ELSE c
      IN class_jp_loop_counts_every_slot(jp_statuses, jp_num + 1, jp_count,
                                         [c1 EXCEPT !.jp = @ + 1])

\* the `for jp_num in range(1, jp_count + 1)` loop of generate_class_report,
\* from jp_num on; c holds the counters so far
RECURSIVE class_jp_loop(_, _, _, _)
class_jp_loop(jp_statuses, jp_num, jp_count, c) ==
    IF jp_num > jp_count THEN c
    ELSE
      LET status == dict_get(jp_statuses, str(jp_num))
          c1 == IF status = "H" THEN [c EXCEPT !.h = @ + 1]
                ELSE IF status = "S" THEN [c EXCEPT !.s = @ + 1]
                ELSE IF status = "I" THEN [c EXCEPT !.i = @ + 1]
                ELSE IF status = "A" THEN [c EXCEPT !.a = @ + 1]
                ELSE c
          c2 == IF truthy(status) THEN [c1 EXCEPT !.jp = @ + 1] ELSE c1
      IN class_jp_loop(jp_statuses, jp_num + 1, jp_count, c2)

\* attendance_lookup of generate_class_report: rows of the classroom's
\* students with a date in the range
class_attendance_lookup(classroom, start_date, end_date, student, d) ==
    LET rows == IF <<student, d>> \in DOMAIN attendance
                  THEN attendance[<<student, d>>] ELSE << >> IN
    IF /\ student_classroom[student] = classroom
       /\ start_date <= d /\ d <= end_date
       /\ Len(rows) > 0
      THEN rows[Len(rows)]
      ELSE EmptyDict

\* the `for school_date in school_dates` loop of generate_class_report for
\* one student, from index n on; acc = [total, daily_data]
RECURSIVE class_dates_loop(_, _, _, _, _, _, _)
class_dates_loop(classroom, start_date, end_date, student, school_dates, n, acc) ==
    IF n > Len(school_dates) THEN acc
    ELSE
      LET school_date == school_dates[n]
          jp_statuses == class_attendance_lookup(classroom, start_date,
                                                 end_date, student, school_date)
          jp_count == get_jp_count_for_date(school_date)
          day == class_jp_loop(jp_statuses, 1, jp_count, ZeroCounts)
          total == [h |-> acc.total.h + day.h, s |-> acc.total.s + day.s,
                    i |-> acc.total.i + day.i, a |-> acc.total.a + day.a,
                    jp |-> acc.total.jp + day.jp]
          daily == [date |-> school_date, jp_count |-> jp_count,
                    hadir |-> day.h, sakit |-> day.s, izin |-> day.i,
                    alpa |-> day.a,
                    has_record |-> (jp_statuses # EmptyDict)]
      IN class_dates_loop(classroom, start_date, end_date, student,
                          school_dates, n + 1,
                          [total |-> total,
                           daily_data |-> Append(acc.daily_data, daily)])

\* class_student_report whose percentage is cut off after two decimals
class_student_report_truncated(classroom, start_date, end_date, student, school_dates) ==
    LET r == class_dates_loop(classroom, start_date, end_date, student,
                              school_dates, 1,
                              [total |-> ZeroCounts, daily_data |-> << >>])
    IN [student |-> student,
        total_hadir |-> r.total.h, total_sakit |-> r.total.s,
        total_izin |-> r.total.i, total_alpa |-> r.total.a,
        total_jp |-> r.total.jp,
        attendance_percentage |->
            IF r.total.jp > 0 THEN (r.total.h * 10000) \div r.total.jp ELSE 0,
        daily_data |-> r.daily_data]

\* one entry of student_reports
class_student_report(classroom, start_date, end_date, student, school_dates) ==
    LET r == class_dates_loop(classroom, start_date, end_date, student,
                              school_dates, 1,
                              [total |-> ZeroCounts, daily_data |-> << >>])
    IN [student |-> student,
        total_hadir |-> r.total.h, total_sakit |-> r.total.s,
        total_izin |-> r.total.i, total_alpa |-> r.total.a,
        total_jp |-> r.total.jp,
        attendance_percentage |-> percentage(r.total.h, r.total.jp),
        daily_data |-> r.daily_data]

\* the `for student in students` loop: acc = [students, class totals]
RECURSIVE class_students_loop(_, _, _, _, _, _, _)
class_students_loop(classroom, start_date, end_date, students, school_dates, n, acc) ==
    IF n > Len(students) THEN acc
    ELSE
      LET sr == class_student_report(classroom, start_date, end_date,
                                     students[n], school_dates)
      IN class_students_loop(classroom, start_date, end_date, students,
            school_dates, n + 1,
            [students |-> Append(acc.students, sr),
             total |-> [h |-> acc.total.h + sr.total_hadir,
                        s |-> acc.total.s + sr.total_sakit,
                        i |-> acc.total.i + sr.total_izin,
                        a |-> acc.total.a + sr.total_alpa,
                        jp |-> acc.total.jp + sr.total_jp]])

\* Student.objects.filter(classroom=classroom, is_active=True).order_by('name')
active_students(classroom) ==
    LET keep(s) == student_classroom[s] = classroom /\ student_is_active[s]
    IN SelectSeq(StudentsByName, keep)

\* generate_class_report whose class percentage is the mean of the students'
\* percentages
generate_class_report_mean_of_students(classroom, start_date, end_date) ==
    LET students == active_students(classroom)
        school_dates == get_school_dates(classroom, start_date, end_date)
        r == class_students_loop(classroom, start_date, end_date, students,
                                 school_dates, 1,
                                 [students |-> << >>, total |-> ZeroCounts])
        sum[n \in 0..Len(r.students)] ==
            IF n = 0 THEN 0
            ELSE sum[n - 1] + r.students[n].attendance_percentage
    IN [classroom |-> classroom,
        students |-> r.students,
        class_summary |->
            [total_students |-> Len(students),
             total_hadir |-> r.total.h, total_sakit |-> r.total.s,
             total_izin |-> r.total.i, total_alpa |-> r.total.a,
             total_jp |-> r.total.jp,
             attendance_percentage |->
                IF Len(r.students) > 0
                  THEN sum[Len(r.students)] \div Len(r.students) ELSE 0],
        dates |-> school_dates,
        total_school_days |-> Len(school_dates)]

generate_class_report(classroom, start_date, end_date) ==
    LET students == active_students(classroom)
        school_dates == get_school_dates(classroom, start_date, end_date)
        r == class_students_loop(classroom, start_date, end_date, students,
                                 school_dates, 1,
                                 [students |-> << >>, total |-> ZeroCounts])
    IN [classroom |-> classroom,
        students |-> r.students,
        class_summary |->
            [total_students |-> Len(students),
             total_hadir |-> r.total.h, total_sakit |-> r.total.s,
             total_izin |-> r.total.i, total_alpa |-> r.total.a,
             total_jp |-> r.total.jp,
             attendance_percentage |-> percentage(r.total.h, r.total.jp)],
        dates |-> school_dates,
        total_school_days |-> Len(school_dates)]

\* student_jp_loop that counts every value of the stored dict, whatever its
\* key
student_jp_loop_all_values(att, jp_num, jp_count, acc) ==
    LET m == IF Len(att) > 0 THEN att[1] ELSE EmptyDict
        n(x) == Cardinality({k \in DOMAIN m : m[k] = x})
    IN [c |-> [h |-> acc.c.h + n("H"), s |-> acc.c.s + n("S"),
               i |-> acc.c.i + n("I"), a |-> acc.c.a + n("A"),
               jp |-> acc.c.jp + Cardinality(DOMAIN m)],
        jp_details |-> [p \in 1..jp_count |->
                          [jp_num |-> p, status |-> dict_get(m, str(p))]]]

\* the `for jp_num in range(1, jp_count + 1)` loop of
\* generate_student_report; att is the fetched row as a sequence (empty for
\* None); acc = [c, jp_details]
RECURSIVE student_jp_loop(_, _, _, _)
student_jp_loop(att, jp_num, jp_count, acc) ==
    IF jp_num > jp_count THEN acc
    ELSE
      LET status == IF Len(att) > 0 THEN dict_get(att[1], str(jp_num))
                    ELSE None
          c == acc.c
          c1 == IF status = "H" THEN [c EXCEPT !.h = @ + 1]
                ELSE IF status = "S" THEN [c EXCEPT !.s = @ + 1]
                ELSE IF status = "I" THEN [c EXCEPT !.i = @ + 1]
                ELSE IF status = "A" THEN [c EXCEPT !.a = @ + 1]
                ELSE c
          c2 == IF truthy(status) THEN [c1 EXCEPT !.jp = @ + 1] ELSE c1
      IN student_jp_loop(att, jp_num + 1, jp_count,
            [c |-> c2,
             jp_details |-> Append(acc.jp_details,
                                   [jp_num |-> jp_num, status |-> status])])

\* attendance_lookup.get(school_date) of generate_student_report
student_attendance_lookup(student, start_date, end_date, d) ==
    LET rows == IF <<student, d>> \in DOMAIN attendance
                  THEN attendance[<<student, d>>] ELSE << >> IN
    IF start_date <= d /\ d <= end_date /\ Len(rows) > 0
      THEN <<rows[Len(rows)]>>
      ELSE << >>

\* the `for school_date in school_dates` loop of generate_student_report
RECURSIVE student_dates_loop(_, _, _, _, _, _)
student_dates_loop(student, start_date, end_date, school_dates, n, acc) ==
    IF n > Len(school_dates) THEN acc
    ELSE
      LET school_date == school_dates[n]
          att == student_attendance_lookup(student, start_date, end_date,
                                           school_date)
          jp_count == get_jp_count_for_date(school_date)
          day == student_jp_loop(att, 1, jp_count,
                                 [c |-> ZeroCounts, jp_details |-> << >>])
          total == [h |-> acc.total.h + day.c.h, s |-> acc.total.s + day.c.s,
                    i |-> acc.total.i + day.c.i, a |-> acc.total.a + day.c.a,
                    jp |-> acc.total.jp + day.c.jp]
          rec == [date |-> school_date, jp_count |-> jp_count,
                  jp_details |-> day.jp_details,
                  has_record |-> (Len(att) > 0),
                  day_summary |-> [hadir |-> day.c.h, sakit |-> day.c.s,
                                   izin |-> day.c.i, alpa |-> day.c.a]]
      IN student_dates_loop(student, start_date, end_date, school_dates,
            n + 1,
            [total |-> total,
             daily_records |-> Append(acc.daily_records, rec)])

generate_student_report(student, start_date, end_date) ==
    LET classroom == student_classroom[student]
        school_dates == get_school_dates(classroom, start_date, end_date)
        r == student_dates_loop(student, start_date, end_date, school_dates,
                                1, [total |-> ZeroCounts,
                                    daily_records |-> << >>])
    IN [student |-> student,
        classroom |-> classroom,
        daily_records |-> r.daily_records,
        summary |->
            [total_hadir |-> r.total.h, total_sakit |-> r.total.s,
             total_izin |-> r.total.i, total_alpa |-> r.total.a,
             total_jp |-> r.total.jp,
             attendance_percentage |-> percentage(r.total.h, r.total.jp),
             sakit_percentage |-> percentage(r.total.s, r.total.jp),
             izin_percentage |-> percentage(r.total.i, r.total.jp),
             alpa_percentage |-> percentage(r.total.a, r.total.jp)],
        total_school_days |-> Len(school_dates)]

\* the while loop of get_missing_attendance from current_date on
RECURSIVE missing_loop(_, _, _, _, _)
missing_loop(classroom, current_date, end_date, existing_dates, missing_dates) ==
    IF current_date > end_date THEN missing_dates
    ELSE missing_loop(classroom, current_date + 1, end_date, existing_dates,
            IF /\ is_school_day(current_date)
               /\ ~is_holiday(current_date, classroom)
               /\ current_date \notin existing_dates
              THEN Append(missing_dates, current_date)
              ELSE missing_dates)

get_missing_attendance(classroom, start_date, end_date) ==
    LET existing_dates ==
            {d \in Dates :
                /\ start_date <= d /\ d <= end_date
                /\ \E s \in Students :
                      /\ student_classroom[s] = classroom
                      /\ Len(attendance[<<s, d>>]) > 0}
    IN IF Len(active_students(classroom)) = 0 THEN << >>
       ELSE missing_loop(classroom, start_date, end_date, existing_dates,
                         << >>)

\* ------------------------------------------- report page and export views
\* a request parameter is a sequence: << >> when it is not sent, <<n>> for
\* the date string of day n, <<0>> for a string that is no date
strptime(s) ==
    [error |-> IF s[1] < 1 THEN "ValueError" ELSE "none", date |-> s[1]]

max_days == 93

\* JPReportFilterForm.clean on fields that passed their own validation;
\* classroom and student are None when nothing is chosen
JPReportFilterForm_clean(report_type, classroom, student, start_date, end_date) ==
    IF report_type = "class" /\ classroom = None THEN "ValidationError"
    ELSE IF report_type = "student" /\ student = None THEN "ValidationError"
    ELSE IF start_date > end_date THEN "ValidationError"
    ELSE IF end_date - start_date > max_days THEN "ValidationError"
    ELSE "none"

\* form.is_valid(): the fields (a known report type, a classroom and a
\* student of the choices or none, two dates), then clean
JPReportFilterForm_is_valid(report_type, classroom, student, start_date, end_date) ==
    /\ report_type \in {"class", "student"}
    /\ classroom \in Classrooms \cup {None}
    /\ student \in {s \in Students : student_is_active[s]} \cup {None}
    /\ start_date # << >> /\ end_date # << >>
    /\ strptime(start_date).error = "none"
    /\ strptime(end_date).error = "none"
    /\ JPReportFilterForm_clean(report_type, classroom, student,
                                start_date[1], end_date[1]) = "none"

\* the answer of a view: error is "none" or what the view reports instead
\* of an answer, content is what the answer shows
Answer(content) == [error |-> "none", content |-> <<content>>]
Refusal(error) == [error |-> error, content |-> << >>]

\* the report page for a submitted filter form
jp_report(report_type, classroom, student, start_date, end_date) ==
    IF ~JPReportFilterForm_is_valid(report_type, classroom, student,
                                    start_date, end_date)
      THEN Refusal("ValidationError")
    ELSE IF report_type = "class"
      THEN Answer(generate_class_report(classroom, start_date[1],
                                        end_date[1]))
    ELSE Answer(generate_student_report(student, start_date[1], end_date[1]))

\* the rows export_jp_attendance_to_csv writes: header, one row for each
\* student, the TOTAL row
export_jp_attendance_to_csv(classroom, start_date, end_date) ==
    LET report == generate_class_report(classroom, start_date, end_date) IN
    [header |-> report.dates,
     rows |-> [i \in 1..Len(report.students) |->
                 LET student_data == report.students[i] IN
                 [no |-> i,
                  student |-> student_data.student,
                  daily |-> [n \in 1..Len(student_data.daily_data) |->
                               LET daily == student_data.daily_data[n] IN
                               [recorded |-> daily.has_record,
                                hadir |-> daily.hadir, sakit |-> daily.sakit,
                                izin |-> daily.izin, alpa |-> daily.alpa]],
                  total_hadir |-> student_data.total_hadir,
                  total_sakit |-> student_data.total_sakit,
                  total_izin |-> student_data.total_izin,
                  total_alpa |-> student_data.total_alpa,
                  total_jp |-> student_data.total_jp,
                  attendance_percentage |->
                      student_data.attendance_percentage]],
     summary_row |-> [total_hadir |-> report.class_summary.total_hadir,
                      total_sakit |-> report.class_summary.total_sakit,
                      total_izin |-> report.class_summary.total_izin,
                      total_alpa |-> report.class_summary.total_alpa,
                      total_jp |-> report.class_summary.total_jp,
                      attendance_percentage |->
                          report.class_summary.attendance_percentage]]

\* the three checks every export view makes of its parameters, in order;
\* id is the classroom or student parameter, known the ids that exist
export_parameters(id, known, start_date_str, end_date_str) ==
    IF id = None \/ start_date_str = << >> \/ end_date_str = << >>
      THEN "Parameter tidak lengkap"
    ELSE IF \/ strptime(start_date_str).error # "none"
            \/ strptime(end_date_str).error # "none"
      THEN "Format tanggal tidak valid"
    ELSE IF id \notin known THEN "tidak ditemukan"
    ELSE "none"

export_jp_csv(classroom_id, start_date_str, end_date_str) ==
    LET e == export_parameters(classroom_id, Classrooms, start_date_str,
                               end_date_str) IN
    IF e # "none" THEN Refusal(e)
    ELSE Answer(export_jp_attendance_to_csv(classroom_id, start_date_str[1],
                                            end_date_str[1]))

\* PDFService.export_pdf_class lays out generate_class_report's data
export_pdf_class(classroom_id, start_date_str, end_date_str) ==
    LET e == export_parameters(classroom_id, Classrooms, start_date_str,
                               end_date_str) IN
    IF e # "none" THEN Refusal(e)
    ELSE Answer(generate_class_report(classroom_id, start_date_str[1],
                                      end_date_str[1]))

\* PDFService.export_pdf_student lays out generate_student_report's data
export_pdf_student(student_id, start_date_str, end_date_str) ==
    LET e == export_parameters(student_id, Students, start_date_str,
                               end_date_str) IN
    IF e # "none" THEN Refusal(e)
    ELSE Answer(generate_student_report(student_id, start_date_str[1],
                                        end_date_str[1]))

\* ------------------------------------------------------------ Excel export
\* a cell: a text value, a formula over the range (r1, c1)..(r2, c2), or
\* blank. IF_ROUND is =IF(jp>0,ROUND(h/jp*100,2),0) with h at (r1, c1) and
\* jp at (r2, c2)
Blank == [f |-> "blank", v |-> "", r1 |-> 0, c1 |-> 0, r2 |-> 0, c2 |-> 0]
Text(v) == [Blank EXCEPT !.f = "value", !.v = v]
Formula(f, v, r1, c1, r2, c2) ==
    [f |-> f, v |-> v, r1 |-> r1, c1 |-> c1, r2 |-> r2, c2 |-> c2]

\* date_jp_columns: the (school_date, jp_num) pairs in column order, the
\* count of each date read from the schedule
RECURSIVE date_jp_columns_loop(_, _, _)
date_jp_columns_loop(school_dates, n, date_jp_columns) ==
    IF n > Len(school_dates) THEN date_jp_columns
    ELSE date_jp_columns_loop(school_dates, n + 1,
            date_jp_columns \o
            [jp_num \in 1..get_jp_count_for_date(school_dates[n]) |->
                <<school_dates[n], jp_num>>])

\* the cell the export writes at (row, col) before the title rows are
\* inserted: row 1 the headers, rows 2.. the students, an empty row, then
\* the TOTAL row
excel_cell(classroom, start_date, end_date, report, date_jp_columns, row, col) ==
    LET students == Len(report.students)
        last_data_row == 2 + students - 1
        summary_row == last_data_row + 2
        summary_col == 4 + Len(date_jp_columns)
    IN
    IF row = 1 THEN
        IF col = 1 THEN Text("No")
        ELSE IF col = 2 THEN Text("NIS")
        ELSE IF col = 3 THEN Text("Nama Siswa")
        ELSE IF col < summary_col THEN Text("JP")
        ELSE Text("Total")
    ELSE IF row <= last_data_row THEN
        LET student == report.students[row - 1].student IN
        IF col = 1 THEN Text(str(row - 1))
        ELSE IF col <= 3 THEN Text(student)
        ELSE IF col < summary_col THEN
            LET school_date == date_jp_columns[col - 3][1]
                jp_num == date_jp_columns[col - 3][2]
                att == student_attendance_lookup(student, start_date,
                                                 end_date, school_date)
                status == IF Len(att) > 0
                            THEN dict_get(att[1], str(jp_num)) ELSE None
            IN Text(IF status = None THEN "" ELSE status)
        ELSE IF col = summary_col
            THEN Formula("COUNTIF", "H", row, 4, row, summary_col - 1)
        ELSE IF col = summary_col + 1
            THEN Formula("COUNTIF", "S", row, 4, row, summary_col - 1)
        ELSE IF col = summary_col + 2
            THEN Formula("COUNTIF", "I", row, 4, row, summary_col - 1)
        ELSE IF col = summary_col + 3
            THEN Formula("COUNTIF", "A", row, 4, row, summary_col - 1)
        ELSE IF col = summary_col + 4
            THEN Formula("COUNTA", "", row, 4, row, summary_col - 1)
        ELSE Formula("IF_ROUND", "", row, summary_col, row, summary_col + 4)
    ELSE IF row = summary_row THEN
        IF col = 3 THEN Text("TOTAL")
        ELSE IF col < summary_col THEN Text("")
        ELSE IF col < summary_col + 5
            THEN Formula("SUM", "", 2, col, last_data_row, col)
        ELSE Formula("IF_ROUND", "", row, summary_col, row, summary_col + 4)
    ELSE Blank

\* ws.insert_rows(idx, amount): the cells from row idx on move down by
\* amount rows; the formulas keep the references they were written with
insert_rows(ws, idx, amount) ==
    [height |-> ws.height + amount,
     width |-> ws.width,
     cells |-> [p \in (1..(ws.height + amount)) \X (1..ws.width) |->
                  IF p[1] < idx THEN ws.cells[p]
                  ELSE IF p[1] < idx + amount THEN Blank
                  ELSE ws.cells[<<p[1] - amount, p[2]>>]]]

\* the sheet of one classroom: the cells, then three rows inserted above
\* them for the title, the period and the totals line
excel_sheet(classroom, start_date, end_date) ==
    LET report == generate_class_report(classroom, start_date, end_date)
        date_jp_columns == date_jp_columns_loop(report.dates, 1, << >>)
        height == Len(report.students) + 3
        width == 3 + Len(date_jp_columns) + 6
        ws == [height |-> height, width |-> width,
               cells |-> [p \in (1..height) \X (1..width) |->
                            excel_cell(classroom, start_date, end_date,
                                       report, date_jp_columns, p[1], p[2])]]
        moved == insert_rows(ws, 1, 3)
    IN [moved EXCEPT !.cells[<<1, 1>>] = Text("Laporan Absensi JP"),
                     !.cells[<<2, 1>>] = Text("Periode"),
                     !.cells[<<3, 1>>] = Text("Total Siswa")]

\* the workbook: one sheet for each classroom of the list
export_jp_attendance_to_excel(classrooms, start_date, end_date) ==
    [n \in 1..Len(classrooms) |->
        [title |-> classrooms[n],
         ws |-> excel_sheet(classrooms[n], start_date, end_date)]]

\* classroom_ids is the classroom parameter split at the commas, << >> when
\* it is not sent; ids of no classroom are skipped
export_excel_class(classroom_ids, start_date_str, end_date_str) ==
    LET classrooms == SelectSeq(classroom_ids, LAMBDA c : c \in Classrooms)
        e == export_parameters(IF classroom_ids = << >> THEN None ELSE "ids",
                               {"ids"}, start_date_str, end_date_str)
    IN  IF e # "none" THEN Refusal(e)
        ELSE IF classrooms = << >> THEN Refusal("tidak ditemukan")
        ELSE Answer(export_jp_attendance_to_excel(classrooms,
                        start_date_str[1], end_date_str[1]))

\* every active classroom, in the order of the classroom list
ClassroomsInOrder == <<"cA", "cB">>
export_excel_all(start_date_str, end_date_str) ==
    LET e == export_parameters("all", {"all"}, start_date_str, end_date_str)
    IN  IF e # "none" THEN Refusal(e)
        ELSE Answer(export_jp_attendance_to_excel(ClassroomsInOrder,
                        start_date_str[1], end_date_str[1]))

\* ------------------------------------------- the exported sheet when opened
\* the cell at p, blank outside the written area
cell_at(ws, p) == IF p \in DOMAIN ws.cells THEN ws.cells[p] ELSE Blank

\* the positions of a formula's range
range_of(c) ==
    ((IF c.r1 <= c.r2 THEN c.r1 ELSE c.r2)..(IF c.r1 <= c.r2 THEN c.r2 ELSE c.r1))
    \X ((IF c.c1 <= c.c2 THEN c.c1 ELSE c.c2)..(IF c.c1 <= c.c2 THEN c.c2 ELSE c.c1))

\* ROUND(h / jp * 100, 2) in hundredths: a half rounds away from zero
excel_round(h, jp) == (2 * h * 10000 + jp) \div (2 * jp)

\* the number a cell shows: COUNTIF counts the cells of its range holding
\* its text, COUNTA those that are not empty, SUM adds the numbers of its
\* range (a text counts 0), percentages are in hundredths
RECURSIVE excel_number(_, _)
RECURSIVE excel_sum(_, _)
excel_number(ws, p) ==
    LET c == cell_at(ws, p) IN
    IF c.f = "COUNTIF"
      THEN Cardinality({q \in range_of(c) :
              cell_at(ws, q).f = "value" /\ cell_at(ws, q).v = c.v})
    ELSE IF c.f = "COUNTA"
      THEN Cardinality({q \in range_of(c) :
              /\ cell_at(ws, q).f # "blank"
              /\ ~(cell_at(ws, q).f = "value" /\ cell_at(ws, q).v = "")})
    ELSE IF c.f = "SUM" THEN excel_sum(ws, range_of(c))
    ELSE IF c.f = "IF_ROUND"
      THEN LET h == excel_number(ws, <<c.r1, c.c1>>)
               jp == excel_number(ws, <<c.r2, c.c2>>)
           IN IF jp > 0 THEN excel_round(h, jp) ELSE 0
    ELSE 0

excel_sum(ws, ps) ==
    IF ps = {} THEN 0
    ELSE LET p == CHOOSE q \in ps : TRUE
         IN excel_number(ws, p) + excel_sum(ws, ps \ {p})

\* ------------------------------------------- concurrent save_attendance
\* One request per process, one step per database statement (autocommit;
\* a statement sees what has been committed).
c_call(p, student, target_date, jp_statuses) ==
    /\ pc[p] = "idle"
    /\ req' = [req EXCEPT ![p] = [IdleReq EXCEPT !.student = student,
                                                 !.date = target_date,
                                                 !.jp = jp_statuses]]
    /\ pc' = [pc EXCEPT ![p] = "validate"]
    /\ UNCHANGED <<attendance, schedule, holidays, result>>

\* the two validations of save_attendance
c_validate(p) ==
    /\ pc[p] = "validate"
    /\ IF \/ \E k \in DOMAIN req[p].jp : req[p].jp[k] \notin valid_statuses
          \/ Cardinality(DOMAIN req[p].jp) # get_jp_count_for_date(req[p].date)
         THEN /\ req' = [req EXCEPT ![p].error = "ValidationError"]
              /\ pc' = [pc EXCEPT ![p] = "done"]
         ELSE /\ pc' = [pc EXCEPT ![p] = "get"]
              /\ UNCHANGED req
    /\ UNCHANGED <<attendance, schedule, holidays, result>>

\* get_or_create: self.get(**kwargs)
c_get(p) ==
    /\ pc[p] = "get"
    /\ pc' = [pc EXCEPT ![p] =
                IF Len(attendance[<<req[p].student, req[p].date>>]) > 0
                  THEN "update" ELSE "full_clean"]
    /\ UNCHANGED <<attendance, schedule, holidays, result, req>>

\* create -> DailyAttendance.save -> full_clean of the new instance; its
\* ValidationError is not caught by get_or_create
c_full_clean(p) ==
    /\ pc[p] = "full_clean"
    /\ LET e == full_clean(attendance, req[p].student, req[p].date,
                           req[p].jp, TRUE) IN
       IF e # "none"
         THEN /\ req' = [req EXCEPT ![p].error = e]
              /\ pc' = [pc EXCEPT ![p] = "done"]
         ELSE /\ pc' = [pc EXCEPT ![p] = "insert"]
              /\ UNCHANGED req
    /\ UNCHANGED <<attendance, schedule, holidays, result>>

\* the INSERT; on IntegrityError get_or_create fetches the row again
c_insert(p) ==
    /\ pc[p] = "insert"
    /\ LET r == db_insert(attendance, req[p].student, req[p].date, req[p].jp)
       IN
       IF r.error # "none"
         THEN /\ pc' = [pc EXCEPT ![p] = "get_again"]
              /\ UNCHANGED <<attendance, req>>
         ELSE /\ attendance' = r.table
              /\ req' = [req EXCEPT ![p].created = TRUE]
              /\ pc' = [pc EXCEPT ![p] = "save_created"]
    /\ UNCHANGED <<schedule, holidays, result>>

\* except IntegrityError: return self.get(**kwargs), False
c_get_again(p) ==
    /\ pc[p] = "get_again"
    /\ IF Len(attendance[<<req[p].student, req[p].date>>]) > 0
         THEN /\ pc' = [pc EXCEPT ![p] = "update"]
              /\ UNCHANGED req
         ELSE /\ req' = [req EXCEPT ![p].error = "IntegrityError"]
              /\ pc' = [pc EXCEPT ![p] = "done"]
    /\ UNCHANGED <<attendance, schedule, holidays, result>>

\* update_or_create on the fetched row: set the defaults, save
c_update(p) ==
    /\ pc[p] = "update"
    /\ LET e == full_clean(attendance, req[p].student, req[p].date,
                           req[p].jp, FALSE) IN
       IF e # "none"
         THEN /\ req' = [req EXCEPT ![p].error = e]
              /\ UNCHANGED attendance
         ELSE /\ attendance' = db_update(attendance, req[p].student,
                                         req[p].date, req[p].jp)
              /\ UNCHANGED req
    /\ pc' = [pc EXCEPT ![p] = "done"]
    /\ UNCHANGED <<schedule, holidays, result>>

\* if created: attendance.created_by = user; attendance.save()
c_save_created(p) ==
    /\ pc[p] = "save_created"
    /\ LET e == full_clean(attendance, req[p].student, req[p].date,
                           req[p].jp, FALSE) IN
       IF e # "none"
         THEN /\ req' = [req EXCEPT ![p].error = e]
              /\ UNCHANGED attendance
         ELSE /\ attendance' = db_update(attendance, req[p].student,
                                         req[p].date, req[p].jp)
              /\ UNCHANGED req
    /\ pc' = [pc EXCEPT ![p] = "done"]
    /\ UNCHANGED <<schedule, holidays, result>>

\* the request returns (or raises) to its caller
c_return(p) ==
    /\ pc[p] = "done"
    /\ result' = [op |-> "save_attendance", error |-> req[p].error,
                  created |-> IF req[p].error = "none" /\ req[p].created
                                THEN 1 ELSE 0,
                  updated |-> IF req[p].error = "none" /\ ~req[p].created
                                THEN 1 ELSE 0]
    /\ pc' = [pc EXCEPT ![p] = "idle"]
    /\ req' = [req EXCEPT ![p] = IdleReq]
    /\ UNCHANGED <<attendance, schedule, holidays>>

\* ------------------------------------------ generate_class_report by steps
\* One generate_class_report call of process p, one step per read of the
\* database: no transaction surrounds the call, so each read sees what has
\* been committed when it runs. req[p] holds the call's local variables;
\* seen collects the configurations (schedule, holidays) its reads saw.
Configuration == [schedule |-> schedule, holidays |-> holidays]

r_call(p, classroom, start_date, end_date) ==
    /\ pc[p] = "idle"
    /\ req' = [req EXCEPT ![p] =
                 [classroom |-> classroom, start_date |-> start_date,
                  end_date |-> end_date, current_date |-> start_date,
                  school_dates |-> << >>, attendance_lookup |-> << >>,
                  students |-> << >>, i |-> 1, n |-> 1,
                  total |-> ZeroCounts, daily_data |-> << >>,
                  student_reports |-> << >>, class_total |-> ZeroCounts,
                  seen |-> {}]]
    /\ pc' = [pc EXCEPT ![p] = "r_school_dates"]
    /\ UNCHANGED <<attendance, schedule, holidays, result>>

\* one round of the while loop of _get_school_dates
r_school_date(p) ==
    /\ pc[p] = "r_school_dates"
    /\ LET q == req[p] IN
       IF q.current_date > q.end_date
         THEN /\ pc' = [pc EXCEPT ![p] = "r_attendances"]
              /\ UNCHANGED req
         ELSE /\ req' = [req EXCEPT
                    ![p].school_dates =
                        IF /\ is_school_day(q.current_date)
                           /\ ~is_holiday(q.current_date, q.classroom)
                          THEN Append(@, q.current_date) ELSE @,
                    ![p].current_date = @ + 1,
                    ![p].seen = @ \cup {Configuration}]
              /\ UNCHANGED pc
    /\ UNCHANGED <<attendance, schedule, holidays, result>>

\* the attendances query and the students query, each evaluated once
r_attendances(p) ==
    /\ pc[p] = "r_attendances"
    /\ req' = [req EXCEPT
          ![p].attendance_lookup =
              [k \in {<<s, d>> \in DOMAIN attendance :
                        /\ student_classroom[s] = req[p].classroom
                        /\ req[p].start_date <= d /\ d <= req[p].end_date
                        /\ Len(attendance[<<s, d>>]) > 0} |->
                  attendance[k][Len(attendance[k])]],
          ![p].students = active_students(req[p].classroom)]
    /\ pc' = [pc EXCEPT ![p] = "r_students"]
    /\ UNCHANGED <<attendance, schedule, holidays, result>>

\* one round of `for school_date in school_dates` for the student at hand:
\* the period count is read from the schedule now
r_day(p) ==
    /\ pc[p] = "r_students"
    /\ req[p].i <= Len(req[p].students)
    /\ req[p].n <= Len(req[p].school_dates)
    /\ LET q == req[p]
           school_date == q.school_dates[q.n]
           key == <<q.students[q.i], school_date>>
           jp_statuses == IF key \in DOMAIN q.attendance_lookup
                            THEN q.attendance_lookup[key] ELSE EmptyDict
           jp_count == get_jp_count_for_date(school_date)
           day == class_jp_loop(jp_statuses, 1, jp_count, ZeroCounts)
       IN req' = [req EXCEPT
              ![p].total = [h |-> @.h + day.h, s |-> @.s + day.s,
                            i |-> @.i + day.i, a |-> @.a + day.a,
                            jp |-> @.jp + day.jp],
              ![p].daily_data = Append(@,
                  [date |-> school_date, jp_count |-> jp_count,
                   hadir |-> day.h, sakit |-> day.s, izin |-> day.i,
                   alpa |-> day.a, has_record |-> (jp_statuses # EmptyDict)]),
              ![p].n = @ + 1,
              ![p].seen = @ \cup {Configuration}]
    /\ UNCHANGED <<attendance, schedule, holidays, result, pc>>

\* the end of one round of `for student in students`
r_student(p) ==
    /\ pc[p] = "r_students"
    /\ req[p].i <= Len(req[p].students)
    /\ req[p].n > Len(req[p].school_dates)
    /\ LET q == req[p] IN
       req' = [req EXCEPT
          ![p].student_reports = Append(@,
              [student |-> q.students[q.i],
               total_hadir |-> q.total.h, total_sakit |-> q.total.s,
               total_izin |-> q.total.i, total_alpa |-> q.total.a,
               total_jp |-> q.total.jp,
               attendance_percentage |-> percentage(q.total.h, q.total.jp),
               daily_data |-> q.daily_data]),
          ![p].class_total = [h |-> @.h + q.total.h, s |-> @.s + q.total.s,
                              i |-> @.i + q.total.i, a |-> @.a + q.total.a,
                              jp |-> @.jp + q.total.jp],
          ![p].total = ZeroCounts,
          ![p].daily_data = << >>,
          ![p].i = @ + 1,
          ![p].n = 1]
    /\ UNCHANGED <<attendance, schedule, holidays, result, pc>>

\* the report is complete: req[p] holds what the call is about to return
r_summary(p) ==
    /\ pc[p] = "r_students"
    /\ req[p].i > Len(req[p].students)
    /\ pc' = [pc EXCEPT ![p] = "r_done"]
    /\ UNCHANGED <<attendance, schedule, holidays, result, req>>

r_return(p) ==
    /\ pc[p] = "r_done"
    /\ result' = Ok("generate_class_report")
    /\ pc' = [pc EXCEPT ![p] = "idle"]
    /\ req' = [req EXCEPT ![p] = IdleReq]
    /\ UNCHANGED <<attendance, schedule, holidays>>

\* ------------------------------------------------------------ inputs
JP6 == JP(<<"H", "S", "H", "H", "H", "H">>)
JP6H == JP(<<"H", "H", "H", "H", "H", "H">>)
JP4H == JP(<<"H", "H", "H", "H">>)
JP4 == JP(<<"H", "S", "I", "A">>)
JP2 == JP(<<"A", "A">>)
JPBad == JP(<<"H", "X", "H", "H", "H", "H">>)

SaveStudents == {"s1", "s2"}
SaveMappings == {JP6, JP4, JPBad, EmptyDict}

BatchEntries ==
    {[student_id |-> "s1", jp_statuses |-> JP6],
     [student_id |-> "s2", jp_statuses |-> JP2],
     [student_id |-> "s2", jp_statuses |-> JPBad],
     [student_id |-> "s3", jp_statuses |-> JP6]}
\* the batches of at most MaxBatch entries, no entry twice
Batches ==
    {b \in UNION {[1..n -> BatchEntries] : n \in 1..MaxBatch} :
        \A i, j \in 1..Len(b) : b[i] = b[j] => i = j}

ScheduleWeekdays == {4}
ScheduleCounts == {0, 4, 6, 11}
OptionalBool == {None, "True", "False"}

\* --------------------------------------------------------- specifications
\* Spec: the attendance writes and the schedule updates
SaveAttendance ==
    \E s \in SaveStudents, d \in Dates, m \in SaveMappings :
        DoSaveAttendance(s, d, m)

SaveBulkAttendance ==
    \E d \in Dates, b \in Batches : DoSaveBulkAttendance("cA", d, b)

UpdateSchedule ==
    \E w \in ScheduleWeekdays, n \in ScheduleCounts, f \in OptionalBool :
        DoUpdateSchedule(w, n, f)

Next == SaveAttendance \/ SaveBulkAttendance \/ UpdateSchedule

Spec == Init /\ [][Next]_vars

\* SpecReport: the writes that fill the reports; one student is written by
\* save_attendance, the classroom by save_bulk_attendance, and the Friday
\* schedule changes under the stored rows
ReportMappings == {JP6H, JP6, JP4}
ReportBatchEntries ==
    {[student_id |-> "s1", jp_statuses |-> JP6],
     [student_id |-> "s2", jp_statuses |-> JP2]}
ReportBatches == UNION {[1..n -> ReportBatchEntries] : n \in 1..MaxBatch}
ReportCounts == {4, 6}

RepSaveAttendance ==
    \E d \in Dates, m \in ReportMappings : DoSaveAttendance("s1", d, m)

RepSaveBulkAttendance ==
    \E d \in Dates, b \in ReportBatches : DoSaveBulkAttendance("cA", d, b)

RepUpdateSchedule ==
    \E n \in ReportCounts, f \in OptionalBool : DoUpdateSchedule(4, n, f)

ReportNext == RepSaveAttendance \/ RepSaveBulkAttendance \/ RepUpdateSchedule

SpecReport == Init /\ [][ReportNext]_vars

\* SpecConc: two clients saving the attendance of s1 for day 1 at the same
\* time, statement by statement, and bulk saves whose transaction commits
\* between two statements of the others
ConcMappings == {JP4, JP4H, JPBad}
ConcBatches ==
    {<<[student_id |-> "s1", jp_statuses |-> JP4]>>,
     <<[student_id |-> "s1", jp_statuses |-> JP4H],
       [student_id |-> "s2", jp_statuses |-> JPBad]>>}

ConcCall == \E p \in Procs, m \in ConcMappings : c_call(p, "s1", 1, m)
ConcValidate == \E p \in Procs : c_validate(p)
ConcGet == \E p \in Procs : c_get(p)
ConcFullClean == \E p \in Procs : c_full_clean(p)
ConcInsert == \E p \in Procs : c_insert(p)
ConcGetAgain == \E p \in Procs : c_get_again(p)
ConcUpdate == \E p \in Procs : c_update(p)
ConcSaveCreated == \E p \in Procs : c_save_created(p)
ConcReturn == \E p \in Procs : c_return(p)
ConcSaveBulk == \E b \in ConcBatches : DoSaveBulkAttendance("cA", 1, b)

RaceNext ==
    \/ ConcCall \/ ConcValidate \/ ConcGet \/ ConcFullClean \/ ConcInsert
    \/ ConcGetAgain \/ ConcUpdate \/ ConcSaveCreated \/ ConcReturn

\* SpecRace: the two clients alone
SpecRace == Init /\ [][RaceNext]_vars

ConcNext == RaceNext \/ ConcSaveBulk

SpecConc == Init /\ [][ConcNext]_vars

\* SpecCal: the holiday and schedule administration, with the attendance of
\* one student
CalCreateData ==
    [date : Dates, holiday_type : {"UAS", "INVALID"}, apply_to_all : BOOLEAN,
     classroom_ids : {{}, {"cA"}, {"cX"}}]
CalUpdateData ==
    [date : {0} \cup Dates, apply_to_all : OptionalBool,
     has_classroom_ids : BOOLEAN, classroom_ids : {{}, {"cA"}}]
CalMappings == {JP4, JP6}

CalCreateHoliday == \E data \in CalCreateData : DoCreateHoliday(data)
CalUpdateHoliday ==
    \E i \in HolidaySlots, data \in CalUpdateData : DoUpdateHoliday(i, data)
CalDeleteHoliday == \E i \in HolidaySlots : DoDeleteHoliday(i)
CalUpdateSchedule == \E f \in OptionalBool : DoUpdateSchedule(4, 4, f)
CalSaveAttendance ==
    \E m \in CalMappings : DoSaveAttendance("s1", 1, m)

CalNext ==
    \/ CalCreateHoliday \/ CalUpdateHoliday \/ CalDeleteHoliday
    \/ CalUpdateSchedule \/ CalSaveAttendance

SpecCal == Init /\ [][CalNext]_vars

\* SpecHidden: holidays created, updated and deleted around the attendance
\* of one student, under the seeded schedule
HiddenNext ==
    \/ CalCreateHoliday \/ CalUpdateHoliday \/ CalDeleteHoliday
    \/ CalSaveAttendance

SpecHidden == Init /\ [][HiddenNext]_vars

\* SpecHoliday: the holiday table written by the service and by the form
\* views
FormData ==
    [date : {0} \cup Dates, apply_scope : {"all", "specific"},
     classrooms : {{}, {"cA"}}]

HolCreateHoliday == \E data \in CalCreateData : DoCreateHoliday(data)
HolUpdateHoliday ==
    \E i \in HolidaySlots, data \in CalUpdateData : DoUpdateHoliday(i, data)
HolDeleteHoliday == \E i \in HolidaySlots : DoDeleteHoliday(i)
HolFormCreate == \E data \in FormData : DoManageHolidayCreate(data)
HolFormEdit ==
    \E i \in HolidaySlots, data \in FormData : DoManageHolidayEdit(i, data)

HolidayNext ==
    \/ HolCreateHoliday \/ HolUpdateHoliday \/ HolDeleteHoliday
    \/ HolFormCreate \/ HolFormEdit

SpecHoliday == Init /\ [][HolidayNext]_vars

\* SpecSchedule: the schedule table, whole or lacking rows, under
\* update_schedule calls and submissions of the settings page
MissingRows == {{}, {4}, {6}, {4, 6}}
SettingsWeekdays == {4, 6}
SettingsCounts == {0, 1, 4, 6, 10, 11}
PostCounts == {"", "0", "1", "4", "6", "10", "11", "x"}
PostCheckboxes == {"on", None}
\* the forms submitted: a count and a checkbox for each day of SettingsWeekdays
Posts ==
    {[key \in {"jp_count", "is_school_day"} \X SettingsWeekdays |->
        IF key[1] = "jp_count" THEN c[key[2]] ELSE b[key[2]]] :
        c \in [SettingsWeekdays -> PostCounts],
        b \in [SettingsWeekdays -> PostCheckboxes]}

ScheduleInit ==
    /\ attendance = [k \in Students \X Dates |-> << >>]
    /\ schedule \in {[w \in Weekdays \ m |-> SeededSchedule[w]] :
                        m \in MissingRows}
    /\ holidays = [i \in 1..MaxHolidays |-> NoHoliday]
    /\ result = NoResult
    /\ pc = [p \in Procs |-> "idle"]
    /\ req = [p \in Procs |-> IdleReq]

SchedUpdateSchedule ==
    \E w \in SettingsWeekdays, n \in SettingsCounts, f \in OptionalBool :
        DoUpdateSchedule(w, n, f)

SchedManageDaySchedule == \E POST \in Posts : DoManageDaySchedule(POST)

ScheduleNext == SchedUpdateSchedule \/ SchedManageDaySchedule

SpecSchedule == ScheduleInit /\ [][ScheduleNext]_vars

\* SpecSnapshot: one client generating the report of classroom cA while
\* the schedule, the holidays and the records are written
SnapshotHoliday ==
    [date |-> 1, holiday_type |-> "LAINNYA", apply_to_all |-> TRUE,
     classroom_ids |-> {}]

SnapCall == r_call("p1", "cA", 1, MaxDate)
SnapSchoolDate == r_school_date("p1")
SnapAttendances == r_attendances("p1")
SnapDay == r_day("p1")
SnapStudent == r_student("p1")
SnapSummary == r_summary("p1")
SnapReturn == r_return("p1")
SnapUpdateSchedule == DoUpdateSchedule(4, 6, None)
SnapCreateHoliday == DoCreateHoliday(SnapshotHoliday)
SnapDeleteHoliday == \E i \in HolidaySlots : DoDeleteHoliday(i)
SnapSaveAttendance == DoSaveAttendance("s1", 1, JP4)

SnapshotNext ==
    \/ SnapCall \/ SnapSchoolDate \/ SnapAttendances \/ SnapDay
    \/ SnapStudent \/ SnapSummary \/ SnapReturn
    \/ SnapUpdateSchedule \/ SnapCreateHoliday \/ SnapDeleteHoliday
    \/ SnapSaveAttendance

SpecSnapshot == Init /\ [][SnapshotNext]_vars

\* SpecStore: the reports over a table whose rows of student s1 were loaded
\* without DailyAttendance.save (the column's default is the empty dict),
\* then written by the services
LoadedRows == {<< >>, <<JP4>>, <<EmptyDict>>}

StoreInit ==
    /\ attendance \in {t \in [Students \X Dates -> LoadedRows] :
                          \A k \in Students \X Dates :
                              k[1] # "s1" => t[k] = << >>}
    /\ schedule = SeededSchedule
    /\ holidays = [i \in 1..MaxHolidays |-> NoHoliday]
    /\ result = NoResult
    /\ pc = [p \in Procs |-> "idle"]
    /\ req = [p \in Procs |-> IdleReq]

SpecStore == StoreInit /\ [][ReportNext]_vars

\* SpecBulk: bulk saves of cA for the first date, with batches that name a
\* student more than once, next to single saves
BulkEntries ==
    {[student_id |-> "s1", jp_statuses |-> JP6],
     [student_id |-> "s1", jp_statuses |-> JP6H],
     [student_id |-> "s2", jp_statuses |-> JP6],
     [student_id |-> "s2", jp_statuses |-> JP2],
     [student_id |-> "s3", jp_statuses |-> JP6]}
BulkBatches == UNION {[1..n -> BulkEntries] : n \in 1..MaxBatch}
BulkSaveBulkAttendance ==
    \E b \in BulkBatches : DoSaveBulkAttendance("cA", 1, b)
BulkSaveAttendance ==
    \E s \in SaveStudents, d \in Dates, m \in {JP4, JP6} :
        DoSaveAttendance(s, d, m)
BulkNext == BulkSaveBulkAttendance \/ BulkSaveAttendance

SpecBulk == Init /\ [][BulkNext]_vars

\* ================================================================ claims
Ranges == Dates \X Dates
Keys == Students \X Dates

\* a request whose mapping passes both validations of save_attendance
ValidRequest(p) ==
    /\ \A k \in DOMAIN req[p].jp : req[p].jp[k] \in valid_statuses
    /\ Cardinality(DOMAIN req[p].jp) = get_jp_count_for_date(req[p].date)

\* C1: whatever save_attendance and save_bulk_attendance calls have run, to
\* the end or not, the table holds at most one row for each (student, date)
C1_OneRecordPerStudentDate == \A k \in Keys : Len(attendance[k]) <= 1

\* two requests for the same pair have finished, one created the row and the
\* other updated it
C1_Witness ==
    /\ pc["p1"] = "done" /\ pc["p2"] = "done"
    /\ req["p1"].error = "none" /\ req["p2"].error = "none"
    /\ req["p1"].created /\ ~req["p2"].created
    /\ Len(attendance[<<"s1", 1>>]) = 1

HasInvalidStatus(b) ==
    \E i \in 1..Len(b) : \E k \in DOMAIN b[i].jp_statuses :
        b[i].jp_statuses[k] \notin valid_statuses

\* C2: a bulk save whose batch holds a status outside H, S, I, A raises and
\* leaves the table as it was, whatever the place of the bad entry
C2_BulkInvalidStatusPersistsNothing ==
    \A d \in Dates, b \in Batches :
        HasInvalidStatus(b) =>
            LET r == save_bulk_attendance(attendance, "cA", d, b) IN
            /\ r.error # "none"
            /\ r.table = attendance

\* a bulk save has just been refused, and there is a batch of three, valid
\* but for its second entry, whose first entry the loop writes before it
\* raises on the second
C2_Witness ==
    /\ result.op = "save_bulk_attendance"
    /\ result.error = "AttendanceServiceError"
    /\ \E d \in Dates, b \in Batches :
          /\ Len(b) = 3
          /\ ~HasInvalidStatus(<<b[1]>>) /\ HasInvalidStatus(<<b[2]>>)
          /\ ~HasInvalidStatus(<<b[3]>>)
          /\ bulk_loop(attendance, "cA", d, b, 1, 0, 0).table # attendance
          /\ save_bulk_attendance(attendance, "cA", d, b).table = attendance

\* C3 (as claimed): two concurrent save_attendance calls for one pair, both
\* with a valid mapping, both succeed and leave exactly one row
C3_ConcurrentSavesBothSucceed ==
    (/\ pc["p1"] = "done" /\ pc["p2"] = "done"
     /\ ValidRequest("p1") /\ ValidRequest("p2"))
    => /\ req["p1"].error = "none"
       /\ req["p2"].error = "none"
       /\ Len(attendance[<<"s1", 1>>]) = 1

\* C4: a successful save_attendance leaves exactly one row for its pair,
\* holding the submitted mapping, and touches no other pair; the same call
\* made again succeeds as an update and changes nothing
C4_IdempotentUpsert ==
    \A s \in SaveStudents, d \in Dates, m \in SaveMappings :
        LET r1 == save_attendance(attendance, s, d, m) IN
        r1.error = "none" =>
            /\ r1.table[<<s, d>>] = <<m>>
            /\ \A k \in Keys \ {<<s, d>>} : r1.table[k] = attendance[k]
            /\ LET r2 == save_attendance(r1.table, s, d, m) IN
               /\ r2.error = "none"
               /\ ~r2.created
               /\ r2.table = r1.table

\* a save has just updated an existing row
C4_Witness ==
    /\ result.op = "save_attendance" /\ result.error = "none"
    /\ result.updated = 1
    /\ \E k \in Keys : Len(attendance[k]) = 1

\* ------------------------------------------------ what the reports count
\* the status stored for period p of (student, date), None when there is none
StoredStatus(s, d, p) ==
    IF Len(attendance[<<s, d>>]) > 0 /\ str(p) \in DOMAIN attendance[<<s, d>>][1]
      THEN attendance[<<s, d>>][1][str(p)]
      ELSE None

\* the dates of a range that are school days and no holiday of the classroom
SchoolDateSet(c, start, end) ==
    {d \in Dates : /\ start <= d /\ d <= end
                   /\ is_school_day(d)
                   /\ ~is_holiday(d, c)}

\* the period slots of the school dates of a range
Slots(c, start, end) ==
    UNION {{<<d, p>> : p \in 1..get_jp_count_for_date(d)} :
              d \in SchoolDateSet(c, start, end)}

SlotsWith(s, c, start, end, x) ==
    Cardinality({sl \in Slots(c, start, end) :
                    StoredStatus(s, sl[1], sl[2]) = x})

SlotsRecorded(s, c, start, end) ==
    Cardinality({sl \in Slots(c, start, end) :
                    StoredStatus(s, sl[1], sl[2]) # None})

DaySlotsWith(s, d, x) ==
    Cardinality({p \in 1..get_jp_count_for_date(d) : StoredStatus(s, d, p) = x})

DaySlotsRecorded(s, d) ==
    Cardinality({p \in 1..get_jp_count_for_date(d) :
                    StoredStatus(s, d, p) # None})

\* r hundredths is n / total * 100 rounded to two decimals
IsRounded(r, n, total) ==
    LET diff == r * total - n * 10000 IN
    /\ 2 * diff <= total
    /\ 2 * diff >= 0 - total

RECURSIVE SeqSum(_)
SeqSum(q) == IF q = << >> THEN 0 ELSE Head(q) + SeqSum(Tail(q))

\* C5: in both reports the four counts of a student's day add up to at most
\* the period count of the date, and to exactly that count if and only if
\* every period 1..N of the day has a stored status
C5_NoDoubleCounting ==
    \A rg \in Ranges :
      /\ \A c \in Classrooms :
            LET rep == generate_class_report(c, rg[1], rg[2]) IN
            \A i \in 1..Len(rep.students) :
              \A j \in 1..Len(rep.students[i].daily_data) :
                LET day == rep.students[i].daily_data[j]
                    n == get_jp_count_for_date(day.date)
                    sum == day.hadir + day.sakit + day.izin + day.alpa
                IN /\ day.jp_count = n
                   /\ sum <= n
                   /\ (sum = n) <=>
                        (\A p \in 1..n :
                            StoredStatus(rep.students[i].student, day.date, p)
                                # None)
      /\ \A s \in Students :
            LET rep == generate_student_report(s, rg[1], rg[2]) IN
            \A j \in 1..Len(rep.daily_records) :
                LET day == rep.daily_records[j]
                    n == get_jp_count_for_date(day.date)
                    sum == day.day_summary.hadir + day.day_summary.sakit
                           + day.day_summary.izin + day.day_summary.alpa
                IN /\ day.jp_count = n
                   /\ sum <= n
                   /\ (sum = n) <=>
                        (\A p \in 1..n : StoredStatus(s, day.date, p) # None)

\* the schedule has just been updated and an active student has, on a school
\* day, a row with more entries than the day now has periods, and another
\* row that fills its day
C5_Witness ==
    /\ result.op = "update_schedule" /\ result.error = "none"
    /\ \E d \in Dates :
          /\ is_school_day(d)
          /\ Len(attendance[<<"s1", d>>]) = 1
          /\ Cardinality(DOMAIN attendance[<<"s1", d>>][1])
                > get_jp_count_for_date(d)
    /\ \E d \in Dates :
          /\ is_school_day(d)
          /\ Len(attendance[<<"s2", d>>]) = 1
          /\ DaySlotsRecorded("s2", d) < get_jp_count_for_date(d)

\* C6: the class report lists the active students of the classroom, and for
\* each its four totals are the numbers of period slots of the school dates
\* whose stored status is H, S, I, A, total_jp the number of slots that have
\* a status, and the percentage total_hadir * 100 / total_jp rounded to two
\* decimals (11 of 12 gives 91.67)
C6_ClassReportTotals ==
    /\ percentage(11, 12) = 9167
    /\ \A c \in Classrooms, rg \in Ranges :
        LET rep == generate_class_report(c, rg[1], rg[2]) IN
        /\ {rep.students[i].student : i \in 1..Len(rep.students)}
             = {s \in Students : student_classroom[s] = c
                                  /\ student_is_active[s]}
        /\ \A i \in 1..Len(rep.students) :
            LET sr == rep.students[i]
                s == sr.student
            IN /\ sr.total_hadir = SlotsWith(s, c, rg[1], rg[2], "H")
               /\ sr.total_sakit = SlotsWith(s, c, rg[1], rg[2], "S")
               /\ sr.total_izin = SlotsWith(s, c, rg[1], rg[2], "I")
               /\ sr.total_alpa = SlotsWith(s, c, rg[1], rg[2], "A")
               /\ sr.total_jp = SlotsRecorded(s, c, rg[1], rg[2])
               /\ sr.total_jp > 0 =>
                    IsRounded(sr.attendance_percentage, sr.total_hadir,
                              sr.total_jp)

\* two school days of six periods, all Hadir on the first and one Sakit on
\* the second: 11 Hadir, 1 Sakit, 12 periods, 91.67
C6_Witness ==
    LET sr == generate_class_report("cA", 1, 2).students[1] IN
    /\ attendance[<<"s1", 1>>] = <<JP6H>>
    /\ attendance[<<"s1", 2>>] = <<JP6>>
    /\ sr.student = "s1"
    /\ sr.total_hadir = 11 /\ sr.total_sakit = 1 /\ sr.total_jp = 12
    /\ sr.attendance_percentage = 9167

\* C7: each total of the class summary is the sum of the students' totals,
\* and its percentage is summed Hadir * 100 / summed total_jp rounded to two
\* decimals (5 of 8 gives 62.5)
C7_ClassSummaryOverSums ==
    /\ percentage(5, 8) = 6250
    /\ \A c \in Classrooms, rg \in Ranges :
        LET rep == generate_class_report(c, rg[1], rg[2])
            n == Len(rep.students)
            cs == rep.class_summary
            hadir == SeqSum([i \in 1..n |-> rep.students[i].total_hadir])
            jp == SeqSum([i \in 1..n |-> rep.students[i].total_jp])
        IN /\ cs.total_students = n
           /\ cs.total_hadir = hadir
           /\ cs.total_sakit =
                SeqSum([i \in 1..n |-> rep.students[i].total_sakit])
           /\ cs.total_izin =
                SeqSum([i \in 1..n |-> rep.students[i].total_izin])
           /\ cs.total_alpa =
                SeqSum([i \in 1..n |-> rep.students[i].total_alpa])
           /\ cs.total_jp = jp
           /\ jp > 0 => IsRounded(cs.attendance_percentage, hadir, jp)

\* one student with 5 Hadir of 6 recorded and one with 0 of 2: the class
\* percentage is 62.5, the mean of the two percentages is not
C7_Witness ==
    LET rep == generate_class_report("cA", 2, 2) IN
    /\ Len(rep.students) = 2
    /\ rep.students[1].total_hadir = 5 /\ rep.students[1].total_jp = 6
    /\ rep.students[2].total_hadir = 0 /\ rep.students[2].total_jp = 2
    /\ rep.class_summary.attendance_percentage = 6250
    /\ (rep.students[1].attendance_percentage
         + rep.students[2].attendance_percentage) \div 2 # 6250

\* C8: in both reports a period of a school date without a stored status
\* adds to none of the four counters and not to total_jp: each day's counts
\* are the numbers of its periods stored as H, S, I, A, and total_jp is the
\* number of periods of the school dates that have a status
C8_MissingPeriodsNotCounted ==
    \A rg \in Ranges :
      /\ \A c \in Classrooms :
            LET rep == generate_class_report(c, rg[1], rg[2]) IN
            \A i \in 1..Len(rep.students) :
              LET sr == rep.students[i] IN
              /\ sr.total_jp =
                    SeqSum([j \in 1..Len(sr.daily_data) |->
                              DaySlotsRecorded(sr.student,
                                               sr.daily_data[j].date)])
              /\ \A j \in 1..Len(sr.daily_data) :
                    LET day == sr.daily_data[j] IN
                    /\ day.hadir = DaySlotsWith(sr.student, day.date, "H")
                    /\ day.sakit = DaySlotsWith(sr.student, day.date, "S")
                    /\ day.izin = DaySlotsWith(sr.student, day.date, "I")
                    /\ day.alpa = DaySlotsWith(sr.student, day.date, "A")
      /\ \A s \in Students :
            LET rep == generate_student_report(s, rg[1], rg[2]) IN
            /\ rep.summary.total_jp =
                  SeqSum([j \in 1..Len(rep.daily_records) |->
                            DaySlotsRecorded(s, rep.daily_records[j].date)])
            /\ \A j \in 1..Len(rep.daily_records) :
                  LET day == rep.daily_records[j] IN
                  /\ day.day_summary.hadir = DaySlotsWith(s, day.date, "H")
                  /\ day.day_summary.sakit = DaySlotsWith(s, day.date, "S")
                  /\ day.day_summary.izin = DaySlotsWith(s, day.date, "I")
                  /\ day.day_summary.alpa = DaySlotsWith(s, day.date, "A")

\* a row with the statuses of periods 1-4 on a day of 6 periods: both reports
\* of that day give total_jp = 4 and one Alpa
C8_Witness ==
    /\ get_jp_count_for_date(1) = 6
    /\ attendance[<<"s1", 1>>] = <<JP4>>
    /\ generate_class_report("cA", 1, 1).students[1].total_jp = 4
    /\ generate_class_report("cA", 1, 1).students[1].total_alpa = 1
    /\ generate_student_report("s1", 1, 1).summary.total_jp = 4
    /\ generate_student_report("s1", 1, 1).summary.total_alpa = 1

\* C9: a report whose total of recorded periods is 0 gives 0.0 for every
\* percentage: each student's, the class summary's and the four of the
\* student report
C9_ZeroDenominator ==
    \A rg \in Ranges :
      /\ \A c \in Classrooms :
            LET rep == generate_class_report(c, rg[1], rg[2]) IN
            /\ rep.class_summary.total_jp = 0
                  => rep.class_summary.attendance_percentage = 0
            /\ \A i \in 1..Len(rep.students) :
                  rep.students[i].total_jp = 0
                      => rep.students[i].attendance_percentage = 0
      /\ \A s \in Students :
            LET sm == generate_student_report(s, rg[1], rg[2]).summary IN
            sm.total_jp = 0 =>
                /\ sm.attendance_percentage = 0
                /\ sm.sakit_percentage = 0
                /\ sm.izin_percentage = 0
                /\ sm.alpa_percentage = 0

\* rows are stored, yet the report of the whole window has no school date
\* left and so no recorded period; the classroom without active students
\* has a report too
C9_Witness ==
    /\ Len(attendance[<<"s1", 1>>]) = 1
    /\ Len(attendance[<<"s1", 2>>]) = 0
    /\ ~is_school_day(1)
    /\ generate_class_report("cA", 1, 1).class_summary.total_jp = 0
    /\ generate_class_report("cA", 1, 1).class_summary.total_students = 2
    /\ generate_student_report("s1", 1, 2).summary.total_jp = 0
    /\ generate_class_report("cB", 1, 2).class_summary.total_students = 0

SeqElems(q) == {q[i] : i \in 1..Len(q)}

GlobalHolidayOn(d) ==
    \E i \in HolidaySlots :
        /\ holidays[i] # NoHoliday
        /\ holidays[i].date = d
        /\ holidays[i].apply_to_all

\* C10: a date with a holiday that applies to all classrooms is in no
\* classroom's school dates, in no report's date list and in no list of
\* missing dates
C10_GlobalHolidayExcluded ==
    \A d \in Dates :
        GlobalHolidayOn(d) =>
            \A rg \in Ranges :
              /\ \A c \in Classrooms :
                  /\ d \notin SeqElems(get_school_dates(c, rg[1], rg[2]))
                  /\ d \notin SeqElems(
                        generate_class_report(c, rg[1], rg[2]).dates)
                  /\ d \notin SeqElems(
                        get_missing_attendance(c, rg[1], rg[2]))
              /\ \A s \in Students :
                    LET rep == generate_student_report(s, rg[1], rg[2]) IN
                    \A j \in 1..Len(rep.daily_records) :
                        rep.daily_records[j].date # d

\* day 1 is a school day with a global holiday and no holiday of classroom
\* cA, day 2 is a school day with a holiday of cA only
C10_Witness ==
    /\ is_school_day(1) /\ is_school_day(2)
    /\ GlobalHolidayOn(1)
    /\ \A i \in HolidaySlots : holidays[i].date = 1 => holidays[i].apply_to_all
    /\ \E i \in HolidaySlots :
          /\ holidays[i].date = 2 /\ ~holidays[i].apply_to_all
          /\ holidays[i].classrooms = {"cA"}
    /\ get_school_dates("cA", 1, 2) = << >>
    /\ get_school_dates("cB", 1, 2) = <<2>>

\* some stored holiday on d is global or lists c in its classroom set
HolidayCovers(d, c) ==
    \E i \in HolidaySlots :
        /\ holidays[i] # NoHoliday
        /\ holidays[i].date = d
        /\ (holidays[i].apply_to_all \/ c \in holidays[i].classrooms)

\* C11: whatever holidays have been created, updated and deleted,
\* is_holiday(d, c) is true exactly when a stored holiday on d is global or
\* lists c, and is_holiday(d) without a classroom exactly when a global
\* holiday is stored on d
C11_IsHolidayExact ==
    \A d \in Dates :
        /\ \A c \in Classrooms : is_holiday(d, c) <=> HolidayCovers(d, c)
        /\ is_holiday(d, None) <=> GlobalHolidayOn(d)

\* a holiday of classroom cA alone is stored on a date without a global
\* holiday: the date is a holiday for cA, not for cB and not without a
\* classroom; another date has a global holiday
C11_Witness ==
    \E d \in Dates :
        /\ \E i \in HolidaySlots :
              /\ holidays[i].date = d /\ ~holidays[i].apply_to_all
              /\ holidays[i].classrooms = {"cA"}
        /\ ~GlobalHolidayOn(d)
        /\ is_holiday(d, "cA") /\ ~is_holiday(d, "cB") /\ ~is_holiday(d, None)
        /\ \E e \in Dates : GlobalHolidayOn(e) /\ is_holiday(e, "cB")

\* C12: _get_school_dates returns, ascending and without a duplicate,
\* exactly the dates from start to end that are school days and no holiday
\* of the classroom, and both reports are built on this sequence
C12_SchoolDatesExact ==
    \A rg \in Ranges :
      /\ \A c \in Classrooms :
            LET q == get_school_dates(c, rg[1], rg[2]) IN
            /\ \A i, j \in 1..Len(q) : i < j => q[i] < q[j]
            /\ SeqElems(q) = SchoolDateSet(c, rg[1], rg[2])
            /\ generate_class_report(c, rg[1], rg[2]).dates = q
            /\ generate_class_report(c, rg[1], rg[2]).total_school_days = Len(q)
      /\ \A s \in Students :
            LET q == get_school_dates(student_classroom[s], rg[1], rg[2])
                rep == generate_student_report(s, rg[1], rg[2])
            IN /\ rep.total_school_days = Len(q)
               /\ Len(rep.daily_records) = Len(q)
               /\ \A j \in 1..Len(q) : rep.daily_records[j].date = q[j]

\* the window has a holiday of classroom cA on its first day only: the
\* school dates of cA are the second day, those of cB both days in order
C12_Witness ==
    /\ is_school_day(1) /\ is_school_day(2)
    /\ is_holiday(1, "cA") /\ ~is_holiday(1, "cB")
    /\ ~is_holiday(2, "cA")
    /\ get_school_dates("cA", 1, 2) = <<2>>
    /\ get_school_dates("cB", 1, 2) = <<1, 2>>
    /\ get_school_dates("cB", 2, 1) = << >>

\* the dates of the range on which no student of the classroom has a row
NoRecordDates(c, start, end) ==
    {d \in SchoolDateSet(c, start, end) :
        \A s \in Students :
            student_classroom[s] = c => Len(attendance[<<s, d>>]) = 0}

\* C13 (as claimed): for every classroom, with or without active students,
\* get_missing_attendance returns exactly the school dates of the range on
\* which no student of the classroom has a row
C13_MissingDatesExact ==
    \A c \in Classrooms, rg \in Ranges :
        LET m == get_missing_attendance(c, rg[1], rg[2]) IN
        /\ \A i, j \in 1..Len(m) : i < j => m[i] < m[j]
        /\ SeqElems(m) = NoRecordDates(c, rg[1], rg[2])

HasInvalid(m) == \E k \in DOMAIN m : m[k] \notin valid_statuses

\* the mappings submitted to save_attendance in the checks of its refusals
RefusalMappings ==
    SaveMappings \cup {JP2, JP4H, JP6H, JP(<<"H", "X", "H", "H">>),
                       JP(<<"X">>), JP(<<"H", "H", "H", "H", "h", "H">>)}

\* C14: save_attendance with a mapping that holds a status outside H, S, I,
\* A raises ValidationError and leaves the table as it was: no row is
\* created and the row of the pair keeps its mapping
C14_InvalidStatusRefused ==
    \A s \in SaveStudents, d \in Dates, m \in RefusalMappings :
        HasInvalid(m) =>
            LET r == save_attendance(attendance, s, d, m) IN
            /\ r.error = "ValidationError"
            /\ r.message = InvalidStatusMessage
            /\ ~r.created
            /\ r.table = attendance

\* a save has just been refused, and a stored row of a six-period day would
\* not be replaced by a six-entry mapping with one unknown status
C14_Witness ==
    /\ result.op = "save_attendance" /\ result.error = "ValidationError"
    /\ \E s \in SaveStudents, d \in Dates :
          /\ get_jp_count_for_date(d) = 6
          /\ attendance[<<s, d>>] = <<JP6>>
          /\ save_attendance(attendance, s, d, JPBad).error = "ValidationError"
          /\ save_attendance(attendance, s, d, JPBad).table[<<s, d>>] = <<JP6>>

C16_BulkWrongCountRefused ==
    \A d \in Dates, b \in Batches :
        (\E i \in 1..Len(b) :
            Cardinality(DOMAIN b[i].jp_statuses) # get_jp_count_for_date(d))
        => LET r == save_bulk_attendance(attendance, "cA", d, b) IN
           /\ r.error # "none"
           /\ r.table = attendance

\* the four status codes: Hadir, Sakit, Izin, Alpa
StatusCodes == {"H", "S", "I", "A"}

\* C17: whatever save_attendance and save_bulk_attendance calls have run,
\* every status of every stored mapping is one of H, S, I, A
C17_StoredStatusesValid ==
    \A k \in Keys : \A i \in 1..Len(attendance[k]) :
        \A p \in DOMAIN attendance[k][i] : attendance[k][i][p] \in StatusCodes

\* rows written by save_attendance and by save_bulk_attendance are stored,
\* and a bulk save with an unknown status has just been refused
C17_Witness ==
    /\ result.op = "save_bulk_attendance"
    /\ result.error = "AttendanceServiceError"
    /\ \E d \in Dates : attendance[<<"s1", d>>] = <<JP4>>
    /\ \E d \in Dates : attendance[<<"s2", d>>] = <<JP2>>

\* four valid statuses under the keys "2".."5", and under "0".."3"
JP4Shifted == [k \in {"2", "3", "4", "5"} |-> "H"]
JP4FromZero == [k \in {"0", "1", "2", "3"} |-> "H"]
KeyMappings == {JP4, JP6, JP4Shifted, JP4FromZero}

\* the keys "1".."N" of a date
PeriodKeys(d) == {str(p) : p \in 1..get_jp_count_for_date(d)}

\* C18 (as claimed): a successful save_attendance or save_bulk_attendance
\* for a date leaves, for each pair it wrote, a mapping whose keys are
\* exactly "1".."N", N the period count of the date at the write; a mapping
\* of N entries with other keys is refused
C18_StoredKeysAreOneToN ==
    /\ \A s \in SaveStudents, d \in Dates, m \in KeyMappings :
          LET r == save_attendance(attendance, s, d, m) IN
          r.error = "none" => DOMAIN r.table[<<s, d>>][1] = PeriodKeys(d)
    /\ \A d \in Dates, b \in Batches :
          LET r == save_bulk_attendance(attendance, "cA", d, b) IN
          r.error = "none" =>
              \A i \in 1..Len(b) :
                  DOMAIN r.table[<<b[i].student_id, d>>][1] = PeriodKeys(d)

\* C19 (as claimed): whatever holidays have been created and updated, by
\* the service and by the form, every stored holiday that does not apply to
\* all classrooms has at least one classroom
C19_ScopedHolidayHasClassrooms ==
    \A i \in HolidaySlots :
        (holidays[i] # NoHoliday /\ ~holidays[i].apply_to_all)
            => holidays[i].classrooms # {}

\* the period counts outside 1..10 that update_schedule is called with
BadCounts == {0 - 1, 0, 11, 12}

\* C20: update_schedule with a period count outside 1..10 raises
\* ValidationError and leaves every entry of the schedule as it was: its
\* period count, its school-day flag and the user who updated it
C20_BadCountLeavesSchedule ==
    \A w \in Weekdays, n \in BadCounts, u \in {None, "admin", "guru"},
       f \in OptionalBool :
        LET r == update_schedule(w, n, u, f) IN
        /\ r.error = "ValidationError"
        /\ r.schedule = schedule

\* an update with a count outside 1..10 has just been refused, after an
\* update by the admin that changed Friday
C20_Witness ==
    /\ result.op = "update_schedule" /\ result.error = "ValidationError"
    /\ schedule[4].jp = 6 /\ ~schedule[4].school
    /\ schedule[4].updated_by = "admin"
    /\ update_schedule(4, 11, "guru", "True").schedule[4] = schedule[4]

\* ------------------------------------------------------ the day schedule
\* one date of each weekday: day 1 is a Friday, day 3 a Sunday
WeekOfDates == 1..7

\* C21: for every date get_jp_count_for_date returns the count of the
\* weekday's row when the row exists and 6 when it does not, is_school_day
\* returns the row's flag when the row exists and otherwise true for Monday
\* to Saturday and false for Sunday, both return a value, and under the
\* seeded schedule a Friday has 4 periods and a Sunday is no school day
C21_ScheduleLookup ==
    /\ \A d \in WeekOfDates :
        LET w == weekday(d) IN
        /\ get_jp_count_for_date(d) \in 0..10
        /\ is_school_day(d) \in BOOLEAN
        /\ w \in DOMAIN schedule =>
              /\ get_jp_count_for_date(d) = schedule[w].jp
              /\ is_school_day(d) = schedule[w].school
        /\ w \notin DOMAIN schedule =>
              /\ get_jp_count_for_date(d) = 6
              /\ is_school_day(d) = (w \in 0..5)
    /\ schedule = SeededSchedule =>
          /\ get_jp_count_for_date(1) = 4
          /\ ~is_school_day(3)

\* the Friday row is missing and the Sunday row has been updated to a
\* school day of 6 periods
C21_Witness ==
    /\ 4 \notin DOMAIN schedule
    /\ 6 \in DOMAIN schedule
    /\ schedule[6].jp = 6 /\ schedule[6].school
    /\ result.op = "update_schedule" /\ result.error = "none"
    /\ get_jp_count_for_date(1) = 6 /\ is_school_day(3)

\* C26: whatever update_schedule calls and settings submissions have run,
\* every row of the schedule has a count in 1..10, or the count 0 and is no
\* school day: no row is a school day of 0 periods
C26_NoSchoolDayWithoutPeriods ==
    \A w \in DOMAIN schedule :
        \/ schedule[w].jp \in 1..10
        \/ schedule[w].jp = 0 /\ ~schedule[w].school

\* a submission has made Friday a free day of 10 periods and has left the
\* Sunday row, 0 periods and no school day, as it was
C26_Witness ==
    /\ result.op = "manage_day_schedule"
    /\ DOMAIN schedule = Weekdays
    /\ schedule[4].jp = 10 /\ ~schedule[4].school
    /\ schedule[6].jp = 0 /\ ~schedule[6].school

\* ---------------------------------------------------- report date ranges
\* the ranges a request can name: the dates of the window and the first day
\* that makes a span of more than max_days
RequestDates == Dates \cup {1 + max_days + 1}
InvalidRange(a, b) == a > b \/ b - a > max_days

\* C22: a classroom or student report request whose start date is after its
\* end date, or whose span is more than 93 days, is refused on the report
\* page and by the CSV, PDF and Excel exports; none of them answers it
C22_InvalidRangeRefused ==
    \A a, b \in RequestDates :
        InvalidRange(a, b) =>
            /\ jp_report("class", "cA", None, <<a>>, <<b>>).error # "none"
            /\ jp_report("student", None, "s1", <<a>>, <<b>>).error # "none"
            /\ export_jp_csv("cA", <<a>>, <<b>>).error # "none"
            /\ export_pdf_class("cA", <<a>>, <<b>>).error # "none"
            /\ export_pdf_student("s1", <<a>>, <<b>>).error # "none"
            /\ export_excel_class(<<"cA">>, <<a>>, <<b>>).error # "none"
            /\ export_excel_all(<<a>>, <<b>>).error # "none"

\* ------------------------------------------------------- the Excel sheet
\* C23: in the exported sheet of a classroom the COUNTIF formulas and the
\* total formula of every student row evaluate to the student's four totals
\* and total recorded periods of generate_class_report, and the formulas of
\* the TOTAL row to the class totals and the class percentage
C23_ExcelFormulasMatchReport ==
    \A c \in Classrooms : \A r \in Ranges :
        r[1] <= r[2] =>
        LET report == generate_class_report(c, r[1], r[2])
            ws == excel_sheet(c, r[1], r[2])
            n == Len(report.students)
            summary_col == ws.width - 5
            total_row == ws.height
            num(row, k) == excel_number(ws, <<row, summary_col + k>>)
        IN  /\ \A i \in 1..n :
                LET student_data == report.students[i]
                    row == 4 + i
                IN  /\ ws.cells[<<row, 3>>] = Text(student_data.student)
                    /\ num(row, 0) = student_data.total_hadir
                    /\ num(row, 1) = student_data.total_sakit
                    /\ num(row, 2) = student_data.total_izin
                    /\ num(row, 3) = student_data.total_alpa
                    /\ num(row, 4) = student_data.total_jp
            /\ ws.cells[<<total_row, 3>>] = Text("TOTAL")
            /\ num(total_row, 0) = report.class_summary.total_hadir
            /\ num(total_row, 1) = report.class_summary.total_sakit
            /\ num(total_row, 2) = report.class_summary.total_izin
            /\ num(total_row, 3) = report.class_summary.total_alpa
            /\ num(total_row, 4) = report.class_summary.total_jp
            /\ num(total_row, 5) = report.class_summary.attendance_percentage

\* ------------------------------------------------- a report and its writers
\* what a configuration says of a date
SchoolDayIn(cfg, d) ==
    IF weekday(d) \in DOMAIN cfg.schedule
      THEN cfg.schedule[weekday(d)].school ELSE weekday(d) # 6
HolidayIn(cfg, d, c) ==
    \E i \in DOMAIN cfg.holidays :
        /\ cfg.holidays[i] # NoHoliday
        /\ cfg.holidays[i].date = d
        /\ (cfg.holidays[i].apply_to_all \/ c \in cfg.holidays[i].classrooms)
CountIn(cfg, d) ==
    IF weekday(d) \in DOMAIN cfg.schedule
      THEN cfg.schedule[weekday(d)].jp ELSE 6

\* C24: a class report generated while the schedule and the holidays are
\* written is computed over one snapshot: in the finished report the
\* entries of all students for one date carry the same period count, and
\* the school dates and the period counts are those of one configuration
\* that existed while the report ran
C24_ReportOverOneSnapshot ==
    pc["p1"] = "r_done" =>
        LET q == req["p1"]
            students == 1..Len(q.student_reports)
            days == 1..Len(q.school_dates)
        IN  /\ \A i, j \in students : \A n \in days :
                  q.student_reports[i].daily_data[n].jp_count
                    = q.student_reports[j].daily_data[n].jp_count
            /\ \E cfg \in q.seen :
                  /\ SeqElems(q.school_dates) =
                       {d \in q.start_date..q.end_date :
                           /\ SchoolDayIn(cfg, d)
                           /\ ~HolidayIn(cfg, d, q.classroom)}
                  /\ \A i \in students : \A n \in days :
                        q.student_reports[i].daily_data[n].jp_count
                          = CountIn(cfg, q.school_dates[n])

\* ------------------------------------------------ a holiday over a record
\* the row of student s in the class report of the single day d
ClassRowOfDay(s, d) ==
    LET rows == generate_class_report(student_classroom[s], d, d).students
    IN rows[CHOOSE i \in 1..Len(rows) : rows[i].student = s]

\* no report shows day d or counts a status of it for student s
RecordHidden(s, d) ==
    LET c == student_classroom[s]
        row == ClassRowOfDay(s, d)
        sd == generate_student_report(s, d, d)
    IN  /\ d \notin SeqElems(generate_class_report(c, 1, MaxDate).dates)
        /\ \A r \in SeqElems(generate_student_report(s, 1, MaxDate).daily_records) :
              r.date # d
        /\ generate_class_report(c, d, d).dates = << >>
        /\ row.daily_data = << >>
        /\ row.total_hadir = 0 /\ row.total_sakit = 0 /\ row.total_izin = 0
        /\ row.total_alpa = 0 /\ row.total_jp = 0
        /\ sd.daily_records = << >>
        /\ sd.summary.total_jp = 0 /\ sd.summary.total_hadir = 0

\* the reports show day d and count the stored statuses of student s
RecordCounted(s, d) ==
    LET c == student_classroom[s]
        row == ClassRowOfDay(s, d)
        sd == generate_student_report(s, d, d)
    IN  /\ d \in SeqElems(generate_class_report(c, 1, MaxDate).dates)
        /\ generate_class_report(c, d, d).dates = <<d>>
        /\ row.total_jp = DaySlotsRecorded(s, d)
        /\ row.total_hadir = DaySlotsWith(s, d, "H")
        /\ row.total_sakit = DaySlotsWith(s, d, "S")
        /\ row.total_izin = DaySlotsWith(s, d, "I")
        /\ row.total_alpa = DaySlotsWith(s, d, "A")
        /\ Len(sd.daily_records) = 1
        /\ sd.summary.total_jp = DaySlotsRecorded(s, d)
        /\ sd.summary.total_hadir = DaySlotsWith(s, d, "H")

\* a stored record of (s, d) is returned by get_attendance as it is stored;
\* the reports hide its day while a holiday covers the student's classroom
\* on d and count it on a school day that no holiday covers
RecordUnderHolidays(s, d) ==
    LET c == student_classroom[s] IN
    Len(attendance[<<s, d>>]) > 0 =>
        /\ get_attendance(s, d) = <<attendance[<<s, d>>][1]>>
        /\ HolidayCovers(d, c) => RecordHidden(s, d)
        /\ (~HolidayCovers(d, c) /\ is_school_day(d)) => RecordCounted(s, d)

\* C25: a holiday created over a date for which a student has a record takes
\* the date out of the classroom and student reports, which count none of
\* its statuses, while the record stays unchanged and get_attendance still
\* returns it; once the holiday is deleted the record is counted again
C25_HolidayHidesRecord ==
    /\ [](\A s \in SaveStudents : \A d \in Dates : RecordUnderHolidays(s, d))
    /\ [][holidays' # holidays => attendance' = attendance]_vars

\* a holiday has just been created over the day of a stored record, which
\* the reports no longer show and get_attendance still returns
C25_Witness ==
    /\ result.op = "create_holiday" /\ result.error = "none"
    /\ get_attendance("s1", 1) = <<JP4>>
    /\ HolidayCovers(1, "cA")
    /\ is_school_day(1)
    /\ RecordHidden("s1", 1)

\* --------------------------------------------- the two reports of a student
\* the class report's row of student s and the student report of s agree
ReportsAgree(c, s, start, end) ==
    LET cr == generate_class_report(c, start, end)
        row == cr.students[CHOOSE i \in 1..Len(cr.students) :
                              cr.students[i].student = s]
        sr == generate_student_report(s, start, end)
    IN  /\ Len(sr.daily_records) = Len(cr.dates)
        /\ Len(row.daily_data) = Len(cr.dates)
        /\ \A n \in 1..Len(cr.dates) :
              /\ sr.daily_records[n].date = cr.dates[n]
              /\ row.daily_data[n].date = cr.dates[n]
              /\ sr.daily_records[n].jp_count = row.daily_data[n].jp_count
              /\ sr.daily_records[n].day_summary.hadir = row.daily_data[n].hadir
              /\ sr.daily_records[n].day_summary.sakit = row.daily_data[n].sakit
              /\ sr.daily_records[n].day_summary.izin = row.daily_data[n].izin
              /\ sr.daily_records[n].day_summary.alpa = row.daily_data[n].alpa
              /\ sr.daily_records[n].has_record = row.daily_data[n].has_record
        /\ sr.summary.total_hadir = row.total_hadir
        /\ sr.summary.total_sakit = row.total_sakit
        /\ sr.summary.total_izin = row.total_izin
        /\ sr.summary.total_alpa = row.total_alpa
        /\ sr.summary.total_jp = row.total_jp
        /\ sr.summary.attendance_percentage = row.attendance_percentage

C28_TotalIsSumOfStatuses ==
    \A r \in Ranges :
        /\ \A c \in Classrooms :
              LET cr == generate_class_report(c, r[1], r[2]) IN
              /\ cr.class_summary.total_jp =
                    cr.class_summary.total_hadir + cr.class_summary.total_sakit
                    + cr.class_summary.total_izin + cr.class_summary.total_alpa
              /\ \A i \in 1..Len(cr.students) :
                    cr.students[i].total_jp =
                        cr.students[i].total_hadir + cr.students[i].total_sakit
                        + cr.students[i].total_izin + cr.students[i].total_alpa
        /\ \A s \in Students :
              LET sm == generate_student_report(s, r[1], r[2]).summary IN
              sm.total_jp = sm.total_hadir + sm.total_sakit
                            + sm.total_izin + sm.total_alpa

\* a bulk save has succeeded, both students of cA have records, and the
\* class report counts recorded periods of more than one status
C28_Witness ==
    /\ result.op = "save_bulk_attendance" /\ result.error = "none"
    /\ get_attendance("s1", 1) = <<JP4>>
    /\ get_attendance("s2", 1) = <<JP2>>
    /\ LET cr == generate_class_report("cA", 1, 1) IN
       /\ cr.class_summary.total_jp = 6
       /\ cr.class_summary.total_alpa = 3

\* ------------------------------------ a batch naming a foreign student
\* the entries of the batches: valid ones for s1 and s2, one without
\* jp_statuses (data.get gives {}), s3 of classroom cB, and an id of no
\* student
UnknownStudent == "s9"
C29_Entries ==
    {[student_id |-> "s1", jp_statuses |-> JP6],
     [student_id |-> "s2", jp_statuses |-> JP6],
     [student_id |-> "s1", jp_statuses |-> EmptyDict],
     [student_id |-> "s3", jp_statuses |-> JP6],
     [student_id |-> UnknownStudent, jp_statuses |-> JP6]}
C29_Batches == UNION {[1..n -> C29_Entries] : n \in 1..2}
C29_Offending(classroom, entry) ==
    \/ entry.student_id \notin Students
    \/ student_classroom[entry.student_id] # classroom

\* C29: a save_bulk_attendance batch with an entry whose student does not
\* exist or is not of the classroom fails with AttendanceServiceError and
\* leaves the attendance table as it was
C29_ForeignStudentRefused ==
    \A d \in Dates : \A b \in C29_Batches :
        (\E i \in 1..Len(b) : C29_Offending("cA", b[i]))
        => LET r == save_bulk_attendance(attendance, "cA", d, b) IN
           /\ r.error = "AttendanceServiceError"
           /\ r.table = attendance

\* the same for batches whose offending entry is the first entry to fail
C29_FirstFailureIsForeignStudent ==
    \A d \in Dates : \A b \in C29_Batches :
        (\E i \in 1..Len(b) :
            /\ C29_Offending("cA", b[i])
            /\ \A j \in 1..(i - 1) : b[j].jp_statuses # EmptyDict)
        => LET r == save_bulk_attendance(attendance, "cA", d, b) IN
           /\ r.error = "AttendanceServiceError"
           /\ r.table = attendance

\* the store is left as before whatever the exception
C29_StoreAsBefore ==
    \A d \in Dates : \A b \in C29_Batches :
        (\E i \in 1..Len(b) : C29_Offending("cA", b[i]))
        => LET r == save_bulk_attendance(attendance, "cA", d, b) IN
           r.error # "none" /\ r.table = attendance

\* ------------------------------------------- what a bulk save returns
\* the entries of valid mappings, two for each student of cA
C30_Entries == {e \in BulkEntries : e.student_id \in SaveStudents}
C30_Batches == UNION {[1..n -> C30_Entries] : n \in 1..MaxBatch}
C30_StudentsOf(b) == {b[i].student_id : i \in 1..Len(b)}
C30_LastEntryOf(b, s) ==
    b[CHOOSE i \in 1..Len(b) :
        /\ b[i].student_id = s
        /\ \A j \in (i + 1)..Len(b) : b[j].student_id # s]

\* C30: a successful save_bulk_attendance returns created + updated = the
\* number of entries, created = the number of distinct students of the
\* batch without a record for the date before the call; afterwards each
\* student of the batch has one record for the date holding the mapping of
\* that student's last entry, and every other record is as before
C30_BulkCountsAndLastEntry ==
    \A d \in Dates : \A b \in C30_Batches :
        LET r == save_bulk_attendance(attendance, "cA", d, b) IN
        r.error = "none" =>
            /\ r.created + r.updated = Len(b)
            /\ r.created = Cardinality({s \in C30_StudentsOf(b) :
                                Len(attendance[<<s, d>>]) = 0})
            /\ \A s \in C30_StudentsOf(b) :
                  r.table[<<s, d>>] = <<C30_LastEntryOf(b, s).jp_statuses>>
            /\ \A k \in DOMAIN attendance :
                  (k[1] \notin C30_StudentsOf(b) \/ k[2] # d)
                  => r.table[k] = attendance[k]

\* a bulk save of two entries of s1 on an empty date has returned (1, 1) and
\* s1 holds the mapping of the second entry
C30_Witness ==
    /\ result.op = "save_bulk_attendance" /\ result.error = "none"
    /\ result.created = 1 /\ result.updated = 1
    /\ attendance[<<"s1", 1>>] = <<JP6H>>
    /\ attendance[<<"s2", 1>>] = << >>

====
